---- MODULE Spec2Model ----
(***************************************************************************)
(* A model of the Nativelink MCP server: the two transport bindings (the   *)
(* stdio CallToolRequestSchema handler and the HTTP request listener), the *)
(* zod schemas of the five tools, the tool handlers, the NativelinkAPI     *)
(* client with its offline fallbacks, and the helpers of lib/utils.ts.     *)
(*                                                                         *)
(* JavaScript values are tagged records: [t |-> "undefined"],              *)
(* [t |-> "string", s |-> ...], [t |-> "number", num |-> n, den |-> d],    *)
(* [t |-> "array", a |-> <<...>>], [t |-> "object", o |-> [k |-> v]].      *)
(* Header values and credentials are strings kept as sequences of          *)
(* one-character strings (field c), so that the Bearer pattern is matched  *)
(* character by character.                                                 *)
(***************************************************************************)
EXTENDS Integers, Sequences, FiniteSets, TLC

VARIABLES
  CONFIG,     \* the process-wide configuration record of index.ts
  transport,  \* options.transport: which binding this process started
  conn,       \* per connection (or stdio dispatch) its request and its response
  pk          \* a call of parseApiKey: its headers and its result

vars == <<CONFIG, transport, conn, pk>>

(***************************************************************************)
(* JavaScript values                                                       *)
(***************************************************************************)
Undefined == [t |-> "undefined"]
Null == [t |-> "null"]
Str(s) == [t |-> "string", s |-> s]
Num(n) == [t |-> "number", num |-> n, den |-> 1]
Frac(n, d) == [t |-> "number", num |-> n, den |-> d]
Bool(b) == [t |-> "boolean", b |-> b]
Arr(a) == [t |-> "array", a |-> a]
Obj(o) == [t |-> "object", o |-> o]
Chars(c) == [t |-> "string", c |-> c]

Range(f) == {f[i] : i \in DOMAIN f}

\* obj[key] of a JavaScript object: undefined when the key is absent
Get(o, k) == IF k \in DOMAIN o THEN o[k] ELSE Undefined

(***************************************************************************)
(* lib/utils.ts: parseApiKey                                               *)
(***************************************************************************)
\* (a variant of headerKeys with the custom names ahead of authorization)
headerKeysCustomFirst ==
  <<"nativelink-api-key", "Nativelink-API-Key", "NATIVELINK_API_KEY", "x-api-key",
    "X-API-Key", "X_API_KEY", "authorization", "Authorization">>

headerKeys ==
  <<"authorization", "Authorization", "nativelink-api-key", "Nativelink-API-Key",
    "NATIVELINK_API_KEY", "x-api-key", "X-API-Key", "X_API_KEY">>

\* key.toLowerCase() on the keys of headerKeys
toLowerCase ==
  [k \in Range(headerKeys) |->
     CASE k \in {"authorization", "Authorization"} -> "authorization"
       [] k \in {"nativelink-api-key", "Nativelink-API-Key"} -> "nativelink-api-key"
       [] k = "NATIVELINK_API_KEY" -> "nativelink_api_key"
       [] k \in {"x-api-key", "X-API-Key"} -> "x-api-key"
       [] OTHER -> "x_api_key"]

\* the characters the sample header values are written in
LowerChar(ch) ==
  CASE ch = "B" -> "b" [] ch = "E" -> "e" [] ch = "A" -> "a" [] ch = "R" -> "r"
    [] OTHER -> ch

WhiteSpace == {" ", "\t", "\n"}
LineTerminator == {"\n"}

\* if (value): a non-empty string or any array
Truthy(v) ==
  \/ v.t = "array"
  \/ v.t = "string" /\ v.c # <<>>

\* Array.isArray(value) ? value[0] : value
HeaderValueOf(v) ==
  IF v.t = "array" THEN (IF Len(v.a) > 0 THEN v.a[1] ELSE Undefined) ELSE v

\* headerValue.match(/^Bearer\s+(.+)$/i): the set of split points i such that
\* characters 7..i are white space and characters i+1..Len are a non-empty
\* run without line terminator
BearerSplits(c) ==
  {i \in 7..(Len(c) - 1) :
     /\ \A j \in 7..i : c[j] \in WhiteSpace
     /\ \A j \in (i + 1)..Len(c) : c[j] \notin LineTerminator}

HasBearerPrefix(c) ==
  /\ Len(c) >= 6
  /\ <<LowerChar(c[1]), LowerChar(c[2]), LowerChar(c[3]),
       LowerChar(c[4]), LowerChar(c[5]), LowerChar(c[6])>>
       = <<"b", "e", "a", "r", "e", "r">>

BearerMatches(c) == HasBearerPrefix(c) /\ BearerSplits(c) # {}

\* match[1]: \s+ is greedy, so the capture starts after the longest white run
BearerCapture(c) ==
  LET i == CHOOSE m \in BearerSplits(c) : \A n \in BearerSplits(c) : n <= m
  IN  SubSeq(c, i + 1, Len(c))

\* (a variant in which an authorization value that is no Bearer token ends the
\* search with undefined)
ParseKeyEndingAtAuthorization(headers, key) ==
  LET value == Get(headers, key)
      headerValue == HeaderValueOf(value)
  IN  IF ~Truthy(value) THEN [ret |-> FALSE]
      ELSE IF toLowerCase[key] = "authorization"
           THEN IF BearerMatches(headerValue.c)
                THEN [ret |-> TRUE, v |-> Chars(BearerCapture(headerValue.c))]
                ELSE [ret |-> TRUE, v |-> Undefined]
           ELSE [ret |-> TRUE, v |-> headerValue]

\* the body of the for loop for one key: [ret |-> TRUE, v |-> value] when the
\* loop returns at this key, [ret |-> FALSE] when it goes on to the next key
ParseKey(headers, key) ==
  LET value == Get(headers, key)
      headerValue == HeaderValueOf(value)
  IN  IF ~Truthy(value) THEN [ret |-> FALSE]
      ELSE IF toLowerCase[key] = "authorization"
           THEN IF BearerMatches(headerValue.c)
                THEN [ret |-> TRUE, v |-> Chars(BearerCapture(headerValue.c))]
                ELSE [ret |-> FALSE]
           ELSE [ret |-> TRUE, v |-> headerValue]

RECURSIVE ParseFrom(_, _)
ParseFrom(headers, i) ==
  IF i > Len(headerKeys) THEN Undefined
  ELSE LET r == ParseKey(headers, headerKeys[i])
       IN  IF r.ret THEN r.v ELSE ParseFrom(headers, i + 1)

parseApiKey(headers) == ParseFrom(headers, 1)

(***************************************************************************)
(* zod: the schema combinators the five tool schemas are built from.       *)
(* A parse returns [issues |-> <<[path, message], ...>>, value |-> v]; a   *)
(* parse with a non-empty issue list is the ZodError thrown by .parse().   *)
(***************************************************************************)
ZString == [k |-> "string"]
ZBoolean == [k |-> "boolean"]
ZNumber(checks) == [k |-> "number", checks |-> checks]
ZEnum(values) == [k |-> "enum", values |-> values]
ZArray(element) == [k |-> "array", element |-> element]
ZObject(keys, shape) == [k |-> "object", keys |-> keys, shape |-> shape]
ZOptional(inner) == [k |-> "optional", inner |-> inner]
ZDefault(inner, value) == [k |-> "default", inner |-> inner, value |-> value]
Min(n) == [kind |-> "min", value |-> n]
Max(n) == [kind |-> "max", value |-> n]

NumLess(a, b) == a.num * b.den < b.num * a.den

RECURSIVE Join(_, _)
Join(strs, sep) ==
  IF strs = <<>> THEN ""
  ELSE IF Len(strs) = 1 THEN strs[1]
  ELSE strs[1] \o sep \o Join(Tail(strs), sep)

\* util.joinValues(options): 'a' | 'b' | 'c'
JoinValues(values) ==
  Join([i \in 1..Len(values) |-> "'" \o values[i] \o "'"], " | ")

Issue(path, message) == [path |-> path, message |-> message]

\* the default error map's message for an invalid_type issue
InvalidType(path, expected, data) ==
  Issue(path, IF data.t = "undefined" THEN "Required"
              ELSE "Expected " \o expected \o ", received " \o data.t)

\* (a variant whose bounds are exclusive)
RECURSIVE NumberChecksExclusive(_, _, _)
NumberChecksExclusive(checks, data, path) ==
  IF checks = <<>> THEN <<>>
  ELSE LET ch == Head(checks)
           bad == IF ch.kind = "min" THEN ~NumLess(Num(ch.value), data)
                  ELSE ~NumLess(data, Num(ch.value))
       IN  (IF bad THEN <<Issue(path, "Number out of range")>> ELSE <<>>)
             \o NumberChecksExclusive(Tail(checks), data, path)

\* the checks of a ZodNumber, all of them run, in declaration order
RECURSIVE NumberChecks(_, _, _)
NumberChecks(checks, data, path) ==
  IF checks = <<>> THEN <<>>
  ELSE LET ch == Head(checks)
           bad == IF ch.kind = "min" THEN NumLess(data, Num(ch.value))
                  ELSE NumLess(Num(ch.value), data)
           msg == IF ch.kind = "min"
                  THEN "Number must be greater than or equal to " \o ToString(ch.value)
                  ELSE "Number must be less than or equal to " \o ToString(ch.value)
       IN  (IF bad THEN <<Issue(path, msg)>> ELSE <<>>)
             \o NumberChecks(Tail(checks), data, path)

RECURSIVE ZParse(_, _, _)
RECURSIVE ZParseElements(_, _, _, _)
RECURSIVE ZParseKeys(_, _, _, _)

\* the elements of a ZodArray from index i (1-based here, reported 0-based)
ZParseElements(schema, a, path, i) ==
  IF i > Len(a) THEN [issues |-> <<>>, value |-> <<>>]
  ELSE LET r == ZParse(schema, a[i], Append(path, ToString(i - 1)))
           rest == ZParseElements(schema, a, path, i + 1)
       IN  [issues |-> r.issues \o rest.issues, value |-> <<r.value>> \o rest.value]

\* the shape keys of a ZodObject, in shape order; unknown keys are stripped
ZParseKeys(schema, o, path, i) ==
  IF i > Len(schema.keys) THEN [issues |-> <<>>, value |-> <<>>]
  ELSE LET key == schema.keys[i]
           r == ZParse(schema.shape[key], Get(o, key), Append(path, key))
           rest == ZParseKeys(schema, o, path, i + 1)
       IN  [issues |-> r.issues \o rest.issues, value |-> <<r.value>> \o rest.value]

ZParse(schema, data, path) ==
  CASE schema.k = "optional" ->
         IF data.t = "undefined" THEN [issues |-> <<>>, value |-> Undefined]
         ELSE ZParse(schema.inner, data, path)
    [] schema.k = "default" ->
         ZParse(schema.inner, IF data.t = "undefined" THEN schema.value ELSE data, path)
    [] schema.k = "string" ->
         IF data.t = "string" THEN [issues |-> <<>>, value |-> data]
         ELSE [issues |-> <<InvalidType(path, "string", data)>>, value |-> Undefined]
    [] schema.k = "boolean" ->
         IF data.t = "boolean" THEN [issues |-> <<>>, value |-> data]
         ELSE [issues |-> <<InvalidType(path, "boolean", data)>>, value |-> Undefined]
    [] schema.k = "number" ->
         IF data.t = "number"
         THEN [issues |-> NumberChecks(schema.checks, data, path), value |-> data]
         ELSE [issues |-> <<InvalidType(path, "number", data)>>, value |-> Undefined]
    [] schema.k = "enum" ->
         IF data.t # "string"
         THEN [issues |-> <<InvalidType(path, JoinValues(schema.values), data)>>,
               value |-> Undefined]
         ELSE IF data.s \in Range(schema.values)
         THEN [issues |-> <<>>, value |-> data]
         ELSE [issues |-> <<Issue(path, "Invalid enum value. Expected "
                                 \o JoinValues(schema.values)
                                 \o ", received '" \o data.s \o "'")>>,
               value |-> Undefined]
    [] schema.k = "array" ->
         IF data.t = "array"
         THEN LET r == ZParseElements(schema.element, data.a, path, 1)
              IN  [issues |-> r.issues, value |-> Arr(r.value)]
         ELSE [issues |-> <<InvalidType(path, "array", data)>>, value |-> Undefined]
    [] schema.k = "object" ->
         IF data.t = "object"
         THEN LET r == ZParseKeys(schema, data.o, path, 1)
              IN  [issues |-> r.issues,
                   value |-> Obj([key \in Range(schema.keys) |->
                                   r.value[CHOOSE i \in 1..Len(schema.keys) :
                                             schema.keys[i] = key]])]
         ELSE [issues |-> <<InvalidType(path, "object", data)>>, value |-> Undefined]

\* (a variant in which the top-level object is strict about unknown keys)
ParseStrict(schema, args) ==
  LET r == ZParse(schema, args, <<>>)
      unknown == IF args.t = "object" /\ schema.k = "object"
                 THEN DOMAIN args.o \ Range(schema.keys) ELSE {}
  IN  IF unknown # {}
      THEN [ok |-> FALSE,
            errors |-> r.issues \o <<Issue(<<>>, "Unrecognized key(s) in object")>>]
      ELSE IF r.issues = <<>> THEN [ok |-> TRUE, value |-> r.value]
      ELSE [ok |-> FALSE, errors |-> r.issues]

\* Schema.parse(args): [ok |-> TRUE, value] or the ZodError [ok |-> FALSE, errors]
Parse(schema, args) ==
  LET r == ZParse(schema, args, <<>>)
  IN  IF r.issues = <<>> THEN [ok |-> TRUE, value |-> r.value]
      ELSE [ok |-> FALSE, errors |-> r.issues]

(***************************************************************************)
(* lib/types.ts and the tool schemas                                       *)
(***************************************************************************)
ProjectType == ZEnum(<<"rust", "cpp", "java", "python", "go", "mixed">>)
DocsTopic == ZEnum(<<"setup", "migration", "optimization", "troubleshooting", "api">>)
Platform == ZEnum(<<"kubernetes", "docker", "aws", "gcp", "azure">>)
Scale == ZEnum(<<"small", "medium", "large", "enterprise">>)
OptimizationTarget == ZEnum(<<"speed", "cost", "balanced">>)

GetBazelConfigSchema ==
  ZObject(<<"projectType", "nativelinkUrl", "features">>,
          [projectType |-> ProjectType,
           nativelinkUrl |-> ZOptional(ZString),
           features |-> ZOptional(ZArray(ZString))])

GetNativelinkDocsSchema ==
  ZObject(<<"topic", "context", "maxTokens">>,
          [topic |-> DocsTopic,
           context |-> ZOptional(ZString),
           maxTokens |-> ZOptional(ZDefault(ZNumber(<<Min(1000)>>), Num(5000)))])

AnalyzeBuildPerformanceSchema ==
  ZObject(<<"profileData", "metrics", "targetOptimization">>,
          [profileData |-> ZOptional(ZString),
           metrics |-> ZOptional(
             ZObject(<<"totalTime", "cacheHitRate", "remoteExecutionTime",
                       "localExecutionTime", "networkTransferSize">>,
                     [totalTime |-> ZOptional(ZNumber(<<>>)),
                      cacheHitRate |-> ZOptional(ZNumber(<<Min(0), Max(1)>>)),
                      remoteExecutionTime |-> ZOptional(ZNumber(<<>>)),
                      localExecutionTime |-> ZOptional(ZNumber(<<>>)),
                      networkTransferSize |-> ZOptional(ZNumber(<<>>))])),
           targetOptimization |-> ZOptional(OptimizationTarget)])

GenerateDeploymentConfigSchema ==
  ZObject(<<"platform", "scale", "features">>,
          [platform |-> Platform,
           scale |-> Scale,
           features |-> ZOptional(ZArray(ZString))])

SetupWatchAndBuildSchema ==
  ZObject(<<"command", "targets", "watchPaths", "excludePaths", "debounceMs", "useIbazel">>,
          [command |-> ZDefault(ZEnum(<<"build", "test", "both">>), Str("both")),
           targets |-> ZDefault(ZString, Str("//...")),
           watchPaths |-> ZOptional(ZArray(ZString)),
           excludePaths |-> ZOptional(ZArray(ZString)),
           debounceMs |-> ZDefault(ZNumber(<<Min(100), Max(10000)>>), Num(1000)),
           useIbazel |-> ZDefault(ZBoolean, Bool(FALSE))])

\* the ZodError mapping of both bindings:
\* `Invalid parameters: ${error.errors.map(e => `${e.path.join('.')}: ${e.message}`).join(', ')}`
\* (a variant that leaves the path out of each entry)
InvalidParamsMessageWithoutPath(errors) ==
  "Invalid parameters: "
    \o Join([i \in 1..Len(errors) |-> errors[i].message], ", ")

\* (a variant that reports error.errors[0] alone)
InvalidParamsMessageFirstOnly(errors) ==
  "Invalid parameters: " \o Join(errors[1].path, ".") \o ": " \o errors[1].message

InvalidParamsMessage(errors) ==
  "Invalid parameters: "
    \o Join([i \in 1..Len(errors) |->
               Join(errors[i].path, ".") \o ": " \o errors[i].message], ", ")

(***************************************************************************)
(* Texts.  A generated text is [t |-> "string", x |-> <<chunk, ...>>], the *)
(* concatenation of its chunks; a chunk [s |-> str, n |-> k] is the first  *)
(* k characters of str.  Line(s) is a whole literal; Blob(id, k) is a      *)
(* content of k characters known only by name (a documentation body).      *)
(***************************************************************************)
Line(s) == [s |-> s, n |-> Len(s)]
Blob(id, k) == [s |-> id, n |-> k]
Text(x) == [t |-> "string", x |-> x]
NL == Line("\n")

RECURSIVE Length(_)
Length(x) == IF x = <<>> THEN 0 ELSE Head(x).n + Length(Tail(x))

\* lines.join(sep)
RECURSIVE JoinLines(_, _)
JoinLines(lines, sep) ==
  IF lines = <<>> THEN <<>>
  ELSE IF Len(lines) = 1 THEN <<Line(lines[1])>>
  ELSE <<Line(lines[1]), sep>> \o JoinLines(Tail(lines), sep)

\* text.substring(0, k)
RECURSIVE Substring(_, _)
Substring(x, k) ==
  IF x = <<>> \/ k <= 0 THEN <<>>
  ELSE IF Head(x).n <= k THEN <<Head(x)>> \o Substring(Tail(x), k - Head(x).n)
  ELSE <<[s |-> Head(x).s, n |-> k]>>

\* a JavaScript outcome: a returned value or a thrown error
Return(v) == [thrown |-> FALSE, value |-> v]
Throw(name, message) == [thrown |-> TRUE, name |-> name, message |-> message]

\* a || b
Falsy(v) ==
  \/ v.t \in {"undefined", "null"}
  \/ v.t = "string" /\ v = Str("")
  \/ v.t = "number" /\ v.num = 0
  \/ v.t = "boolean" /\ ~v.b
OrElse(v, d) == IF Falsy(v) THEN d ELSE v

\* array.includes(str) on an array of strings
Includes(arr, str) == \E i \in 1..Len(arr.a) : arr.a[i] = Str(str)

(***************************************************************************)
(* lib/utils.ts: truncateResponse                                          *)
(***************************************************************************)
avgCharsPerToken == 4

TruncationMarker == Line("\n\n[Response truncated for length]")

\* (a variant that truncates a text of exactly maxChars characters too)
truncateResponseStrictlyBelow(text, maxTokens) ==
  LET maxChars == maxTokens * avgCharsPerToken
  IN  CASE text.t \in {"undefined", "null"} ->
             Throw("TypeError", "Cannot read properties of " \o text.t
                                  \o " (reading 'length')")
        [] text.t = "string" ->
             IF Length(text.x) < maxChars THEN Return(text)
             ELSE Return(Text(Substring(text.x, maxChars) \o <<TruncationMarker>>))
        [] text.t = "array" ->
             IF Len(text.a) < maxChars THEN Return(text)
             ELSE Throw("TypeError", "text.substring is not a function")
        [] OTHER -> Throw("TypeError", "text.substring is not a function")

\* text is whatever fetchDocumentation returned: reading .length of undefined
\* or null throws; a value without .length compares false and then has no
\* .substring; an array short enough is returned as it is
truncateResponse(text, maxTokens) ==
  LET maxChars == maxTokens * avgCharsPerToken
  IN  CASE text.t \in {"undefined", "null"} ->
             Throw("TypeError", "Cannot read properties of " \o text.t
                                  \o " (reading 'length')")
        [] text.t = "string" ->
             IF Length(text.x) <= maxChars THEN Return(text)
             ELSE Return(Text(Substring(text.x, maxChars) \o <<TruncationMarker>>))
        [] text.t = "array" ->
             IF Len(text.a) <= maxChars THEN Return(text)
             ELSE Throw("TypeError", "text.substring is not a function")
        [] OTHER -> Throw("TypeError", "text.substring is not a function")

(***************************************************************************)
(* lib/api.ts: NativelinkAPI                                               *)
(***************************************************************************)
\* the outcome of one outbound fetch
Reject(reason) == [kind |-> "reject", reason |-> reason]
Response(status, body) == [kind |-> "response", status |-> status, body |-> body]
Malformed == [t |-> "malformed"]
ResponseOk(outcome) == outcome.status >= 200 /\ outcome.status <= 299

\* new NativelinkAPI(config)
NativelinkAPI(config) ==
  [config |-> config,
   baseUrl |-> IF config.nativelinkUrl.t = "undefined" THEN "https://api.nativelink.com"
               ELSE config.nativelinkUrl.s]

SetupLen == 1314
MigrationLen == 1247
OptimizationLen == 705
TroubleshootingLen == 750
ApiLen == 1120

SetupHeading == "# Nativelink Cloud Setup Guide"

\* the docs table of getOfflineDocumentation; the setup entry carries its
\* first line, the other entries are kept by name and length
OfflineDocs ==
  [setup |-> Text(<<Line(SetupHeading),
                    Blob("docs.setup body", SetupLen - Len(SetupHeading))>>),
   migration |-> Text(<<Blob("docs.migration", MigrationLen)>>),
   optimization |-> Text(<<Blob("docs.optimization", OptimizationLen)>>),
   troubleshooting |-> Text(<<Blob("docs.troubleshooting", TroubleshootingLen)>>),
   api |-> Text(<<Blob("docs.api", ApiLen)>>)]

\* docs[topic] || docs.setup
getOfflineDocumentation(topic, context) ==
  IF topic \in DOMAIN OfflineDocs THEN OfflineDocs[topic] ELSE OfflineDocs.setup

\* data.content / data.analysis of the parsed body
Property(data, key) ==
  IF data.t = "object" THEN Get(data.o, key) ELSE Undefined

\* the request fetchDocumentation issues
DocsRequest(api, topic, context) ==
  [url |-> api.baseUrl \o "/docs",
   topic |-> topic,
   context |-> context,
   authorization |-> api.config.apiKey]

\* the value fetchDocumentation resolves to, given the outcome of its fetch
fetchDocumentation(api, topic, context, outcome) ==
  IF outcome.kind = "reject" THEN getOfflineDocumentation(topic, context)
  ELSE IF ~ResponseOk(outcome)
       THEN getOfflineDocumentation(topic, context)
  ELSE IF outcome.body.t \in {"malformed", "null"}
       THEN getOfflineDocumentation(topic, context)
  ELSE Property(outcome.body, "content")

\* whether analyzePerformance issues a fetch at all
UsesAI(api) ==
  api.config.anthropicKey.t # "undefined" \/ api.config.geminiKey.t # "undefined"

AnalyzeRequest(api, metrics) ==
  [url |-> api.baseUrl \o "/analyze",
   provider |-> IF api.config.anthropicKey.t # "undefined" THEN "anthropic" ELSE "gemini",
   metrics |-> metrics,
   authorization |-> api.config.apiKey]

HundredMiB == 1024 * 1024 * 100

\* remoteExecutionTime / totalTime * 100 > 70, for a non-zero totalTime
RemotePercentOver70(remote, total) ==
  LET n == remote.num * total.den * 100
      d == remote.den * total.num
  IN  IF d > 0 THEN n > 70 * d ELSE n < 70 * d

\* (the pictograph that opens a heading line of the analysis is left out of
\* the literals)
generateBasicAnalysis(metrics) ==
  LET cache == Get(metrics.o, "cacheHitRate")
      total == Get(metrics.o, "totalTime")
      remote == Get(metrics.o, "remoteExecutionTime")
      net == Get(metrics.o, "networkTransferSize")
      a1 == IF cache.t = "undefined" THEN <<>>
            ELSE IF NumLess(cache, Frac(1, 2))
                 THEN <<"Low cache hit rate detected. Consider:",
                        "  - Enabling strict action environment",
                        "  - Checking for non-hermetic build rules",
                        "  - Reviewing toolchain configuration">>
            ELSE IF NumLess(Frac(4, 5), cache) THEN <<"Excellent cache hit rate!">>
            ELSE <<>>
      a2 == IF ~Falsy(total) /\ ~Falsy(remote) /\ RemotePercentOver70(remote, total)
            THEN <<"Most execution happening remotely - good parallelization">>
            ELSE <<>>
      a3 == IF ~Falsy(net) /\ NumLess(Num(HundredMiB), net)
            THEN <<"Large network transfers detected. Consider:",
                   "  - Using --remote_download_minimal",
                   "  - Enabling compression">>
            ELSE <<>>
      analysis == a1 \o a2 \o a3
  IN  IF analysis = <<>>
      THEN Text(<<Line("Build metrics look normal. No specific optimizations recommended.")>>)
      ELSE Text(JoinLines(analysis, NL))

\* (a variant of analyzePerformance without the response.ok test)
analyzePerformanceIgnoringStatus(api, metrics, outcome) ==
  IF UsesAI(api) /\ outcome.kind = "response"
     /\ outcome.body.t \notin {"malformed", "null"}
  THEN Property(outcome.body, "analysis")
  ELSE generateBasicAnalysis(metrics)

\* the value analyzePerformance resolves to; outcome is read only when a
\* fetch is issued
analyzePerformance(api, metrics, outcome) ==
  IF UsesAI(api) /\ outcome.kind = "response" /\ ResponseOk(outcome)
     /\ outcome.body.t \notin {"malformed", "null"}
  THEN Property(outcome.body, "analysis")
  ELSE generateBasicAnalysis(metrics)

(***************************************************************************)
(* tools/docs.ts, tools/performance.ts                                     *)
(***************************************************************************)
\* getNativelinkDocs after its await: docs is what fetchDocumentation gave
getNativelinkDocs(params, api, outcome) ==
  LET maxTokens == OrElse(params.o.maxTokens, Num(5000))
      docs == fetchDocumentation(api, params.o.topic.s, params.o.context, outcome)
  IN  truncateResponse(docs, maxTokens.num)

\* A markdown code fence (three backquotes) is written ''' in the lines below.

\* metrics?.field
Opt(metrics, key) == IF metrics.t = "undefined" THEN Undefined ELSE Get(metrics.o, key)

getSpeedOptimizations(metrics) ==
  LET cache == Opt(metrics, "cacheHitRate")
  IN  <<"### Speed Optimizations\n",
        "**Maximize Parallelization:**", "'''", "build --jobs=auto",
        "build --remote_executor=grpc://executor.nativelink.com:443",
        "build --remote_download_outputs=toplevel", "'''\n",
        "**Optimize Network:**", "'''", "build --remote_max_connections=500",
        "build --remote_timeout=30", "build --experimental_remote_cache_async", "'''\n">>
      \o (IF ~Falsy(cache) /\ NumLess(cache, Frac(7, 10))
          THEN <<"**Improve Cache Hit Rate:**", "- Enable strict action environment",
                 "- Use deterministic toolchains", "- Configure proper platform settings\n">>
          ELSE <<>>)
      \o <<"**Use Local Execution for Small Targets:**", "'''",
           "build --modify_execution_info=.*-pkg.*=+no-remote", "'''">>

getCostOptimizations(metrics) ==
  LET net == Opt(metrics, "networkTransferSize")
  IN  <<"### Cost Optimizations\n",
        "**Minimize Data Transfer:**", "'''", "build --remote_download_minimal",
        "build --experimental_remote_cache_compression",
        "build --experimental_remote_build_event_upload=minimal", "'''\n",
        "**Optimize Resource Usage:**", "'''", "build --jobs=50  # Limit parallel jobs",
        "build --local_cpu_resources=4", "build --local_ram_resources=8192", "'''\n">>
      \o (IF ~Falsy(net) /\ NumLess(Num(1024 * 1024 * 500), net)
          THEN <<"**Large Transfer Detected:**", "- Consider using --remote_download_minimal",
                 "- Enable build without bytes for CI",
                 "- Use remote asset API for large files\n">>
          ELSE <<>>)
      \o <<"**Cache Strategy:**", "'''", "build --remote_cache_priority=1",
           "build --remote_execution_priority=0", "'''">>

getBalancedOptimizations(metrics) ==
  LET total == Opt(metrics, "totalTime")
  IN  <<"### Balanced Optimizations\n",
        "**Recommended Configuration:**", "'''", "build --jobs=100",
        "build --remote_download_outputs=minimal",
        "build --experimental_remote_cache_compression", "build --remote_timeout=60",
        "build --remote_retries=2", "'''\n",
        "**Smart Caching:**", "'''", "build --remote_cache=grpc://cache.nativelink.com:443",
        "build --remote_upload_local_results=true", "build --remote_local_fallback=true",
        "'''\n">>
      \o (IF ~Falsy(total) /\ NumLess(Num(600), total)
          THEN <<"**Long Build Detected:**", "- Consider splitting into smaller targets",
                 "- Use target-level parallelism", "- Enable incremental builds\n">>
          ELSE <<>>)

analyzeProfileData(profileData) ==
  <<Line("Profile data detected (" \o ToString(Len(profileData.s)) \o " bytes)."),
    Blob("analyzeProfileData advice", 257)>>

\* String(v) for the value that `analysis +=` appends to
ToText(v) ==
  CASE v.t = "string" -> v.x
    [] v.t = "undefined" -> <<Line("undefined")>>
    [] v.t = "null" -> <<Line("null")>>
    [] OTHER -> <<Blob("String(analysis)", 1)>>

\* (a variant that appends the balanced section whatever the target)
RecommendationsAlwaysBalanced(params) ==
  <<Line("\n\n## Optimization Recommendations\n\n")>>
    \o JoinLines(getBalancedOptimizations(params.o.metrics), NL)

\* the sections analyzeBuildPerformance appends to the analysis
Recommendations(params) ==
  LET target == OrElse(params.o.targetOptimization, Str("balanced"))
      recs == IF target.s = "speed" THEN getSpeedOptimizations(params.o.metrics)
              ELSE IF target.s = "cost" THEN getCostOptimizations(params.o.metrics)
              ELSE getBalancedOptimizations(params.o.metrics)
  IN  <<Line("\n\n## Optimization Recommendations\n\n")>>
        \o JoinLines(recs, NL)
        \o (IF ~Falsy(params.o.profileData)
            THEN <<Line("\n\n## Profile Analysis\n\n")>>
                   \o analyzeProfileData(params.o.profileData)
            ELSE <<>>)

\* analyzeBuildPerformance after its await
analyzeBuildPerformance(params, api, outcome) ==
  LET analysis == analyzePerformance(api, OrElse(params.o.metrics, Obj(<<>>)), outcome)
  IN  Return(Text(ToText(analysis) \o Recommendations(params)))

(***************************************************************************)
(* tools/config.ts                                                         *)
(***************************************************************************)
\* (a variant that gives every project the Java settings as well)
getProjectSpecificConfigWithJava(projectType) ==
  CASE projectType = "rust" ->
         <<"build --@rules_rust//rust/settings:pipelined_compilation=True",
           "build --java_language_version=11">>
    [] projectType = "java" -> <<"build --java_language_version=11">>
    [] OTHER -> <<"build --java_language_version=11">>

getProjectSpecificConfig(projectType) ==
  CASE projectType = "rust" ->
         <<"build --@rules_rust//rust/settings:pipelined_compilation=True",
           "build --@rules_rust//rust/settings:rustfmt_toml=//:rustfmt.toml">>
    [] projectType = "cpp" ->
         <<"build --cxxopt=-std=c++17", "build --host_cxxopt=-std=c++17",
           "build --copt=-fPIC">>
    [] projectType = "java" ->
         <<"build --java_language_version=11",
           "build --java_runtime_version=remotejdk_11",
           "build --tool_java_language_version=11",
           "build --tool_java_runtime_version=remotejdk_11">>
    [] projectType = "python" ->
         <<"build --action_env=PYTHONDONTWRITEBYTECODE=1",
           "test --test_env=PYTHONDONTWRITEBYTECODE=1">>
    [] projectType = "go" ->
         <<"build --@io_bazel_rules_go//go/config:race=false",
           "test --@io_bazel_rules_go//go/config:race=true">>
    [] projectType = "mixed" ->
         <<"# Configure based on your primary language",
           "# See language-specific configurations above">>
    [] OTHER -> <<>>

\* new Date().toISOString() at clock reading now
Timestamp(now) == "<Date " \o ToString(now) \o ">"

\* (a variant with the cache feature alone)
DefaultFeaturesCacheOnly == Arr(<<Str("remote_cache")>>)

DefaultFeatures == Arr(<<Str("remote_cache"), Str("remote_execution"), Str("bes")>>)

\* the lines of generateBazelConfig after formatBazelrc dropped the empty ones
BazelConfigLines(params, now) ==
  LET features == OrElse(params.o.features, DefaultFeatures)
      projectType == params.o.projectType.s
      projectSpecific == getProjectSpecificConfig(projectType)
  IN  <<"# Nativelink Cloud Configuration",
        "# Generated for " \o projectType \o " project",
        "# " \o Timestamp(now),
        "# IMPORTANT: Get your personalized configuration from https://app.nativelink.com",
        "# The configuration below is a template - replace with your actual values from the dashboard",
        "# Remote Cache Configuration">>
      \o (IF Includes(features, "remote_cache")
          THEN <<"build --remote_cache=grpcs://cas-tracemachina-shared.build-faster.nativelink.net",
                 "build --remote_header=x-nativelink-api-key=YOUR_API_KEY_FROM_APP_NATIVELINK_COM">>
          ELSE <<>>)
      \o (IF Includes(features, "bes")
          THEN <<"# Build Event Service (BES) Configuration",
                 "build --bes_backend=grpcs://bes-tracemachina-shared.build-faster.nativelink.net",
                 "build --bes_header=x-nativelink-api-key=YOUR_BES_API_KEY_FROM_APP_NATIVELINK_COM",
                 "build --bes_results_url=https://app.nativelink.com/a/YOUR_BUILD_ID/build">>
          ELSE <<>>)
      \o (IF Includes(features, "remote_execution")
          THEN <<"# Remote Execution Configuration",
                 "build --remote_executor=grpcs://scheduler-tracemachina-shared.build-faster.nativelink.net:443",
                 "build --remote_timeout=600", "build --jobs=200",
                 "build --remote_download_outputs=minimal">>
          ELSE <<>>)
      \o <<"# Performance Optimizations", "build --experimental_remote_cache_compression",
           "build --experimental_remote_cache_async", "build --remote_max_connections=200">>
      \o (IF Len(projectSpecific) > 0
          THEN <<"# " \o projectType \o " Specific Configuration">> \o projectSpecific
          ELSE <<>>)
      \o <<"# Build Reproducibility", "build --incompatible_strict_action_env",
           "build --action_env=BAZEL_DO_NOT_DETECT_CPP_TOOLCHAIN=1">>
      \o (IF Includes(features, "metrics")
          THEN <<"# Metrics and Monitoring", "build --experimental_remote_grpc_log=grpc.log",
                 "build --generate_json_trace_profile",
                 "build --experimental_profile_include_primary_output">>
          ELSE <<>>)
      \o <<"# Test Configuration", "test --test_output=errors", "test --test_summary=detailed">>

generateBazelConfig(params, now) ==
  Return(Text(JoinLines(BazelConfigLines(params, now), NL)))

(***************************************************************************)
(* tools/deployment.ts.  Each generator's template is kept as its first    *)
(* line, its marker lines, the lines that interpolate scale, and its       *)
(* feature-conditional sections, in template order.                        *)
(***************************************************************************)
getReplicaCount(scale) ==
  CASE scale = "small" -> 1 [] scale = "medium" -> 3 [] scale = "large" -> 5
    [] scale = "enterprise" -> 10

\* parseInt of getResourceLimits(scale).cpu and .memory ('4Gi' parses as 4)
getResourceLimits(scale) ==
  CASE scale = "small" -> [cpu |-> 2, memory |-> 4]
    [] scale = "medium" -> [cpu |-> 4, memory |-> 8]
    [] scale = "large" -> [cpu |-> 8, memory |-> 16]
    [] scale = "enterprise" -> [cpu |-> 16, memory |-> 32]

getAWSInstanceType(scale) ==
  CASE scale = "small" -> "t3.large" [] scale = "medium" -> "t3.xlarge"
    [] scale = "large" -> "m5.2xlarge" [] scale = "enterprise" -> "m5.4xlarge"

getGCPMachineType(scale) ==
  CASE scale = "small" -> "n2-standard-2" [] scale = "medium" -> "n2-standard-4"
    [] scale = "large" -> "n2-standard-8" [] scale = "enterprise" -> "n2-standard-16"

generateKubernetesConfig(scale, features) ==
  LET replicas == getReplicaCount(scale)
      resources == getResourceLimits(scale)
  IN  <<"# Nativelink Kubernetes Deployment", "apiVersion: apps/v1", "kind: Deployment",
        "  replicas: " \o ToString(replicas)>>
      \o (IF Includes(features, "monitoring")
          THEN <<"- containerPort: 9090", "          name: metrics">> ELSE <<>>)
      \o <<"            memory: \"" \o ToString(resources.memory) \o "Gi\"",
           "            cpu: \"" \o ToString(resources.cpu) \o "\"">>
      \o (IF Includes(features, "high_availability") THEN <<"livenessProbe:">> ELSE <<>>)
      \o <<"kind: Service", "  type: LoadBalancer">>
      \o (IF Includes(features, "autoscaling")
          THEN <<"---", "apiVersion: autoscaling/v2", "kind: HorizontalPodAutoscaler",
                 "  minReplicas: " \o ToString(replicas),
                 "  maxReplicas: " \o ToString(replicas * 3)>>
          ELSE <<>>)

generateDockerConfig(scale, features) ==
  LET resources == getResourceLimits(scale)
  IN  <<"# Nativelink Docker Compose Configuration", "version: '3.8'", "services:",
        "  nativelink:", "    image: ghcr.io/tracemachina/nativelink:latest">>
      \o (IF Includes(features, "monitoring") THEN <<"- \"9090:9090\"    # Metrics">>
          ELSE <<>>)
      \o (IF Includes(features, "high_availability") THEN <<"healthcheck:">> ELSE <<>>)
      \o <<"          cpus: '" \o ToString(resources.cpu) \o "'",
           "          memory: " \o ToString(resources.memory) \o "Gi",
           "    restart: unless-stopped">>

generateAWSConfig(scale, features) ==
  <<"# Nativelink AWS CloudFormation Template", "AWSTemplateFormatVersion: '2010-09-09'">>
  \o (IF Includes(features, "monitoring") THEN <<"ClusterSettings:">> ELSE <<>>)
  \o <<"      DesiredCount: " \o ToString(getReplicaCount(scale))>>
  \o (IF Includes(features, "autoscaling") THEN <<"ServiceRegistries:">> ELSE <<>>)

generateGCPConfig(scale, features) ==
  <<"# Nativelink Google Cloud Deployment Manager",
    "      machineType: " \o getGCPMachineType(scale),
    "    targetSize: " \o ToString(getReplicaCount(scale))>>
  \o (IF Includes(features, "autoscaling") THEN <<"autoHealingPolicies:">> ELSE <<>>)
  \o (IF Includes(features, "monitoring") THEN <<"- name: nativelink-health-check">>
      ELSE <<>>)

generateAzureConfig(scale, features) ==
  <<"# Nativelink Azure Resource Manager Template",
    "                  \"cpu\": " \o ToString(getResourceLimits(scale).cpu) \o ",",
    "                  \"memoryInGB\": " \o ToString(getResourceLimits(scale).memory)>>
  \o (IF Includes(features, "monitoring") THEN <<"\"port\": 9090">> ELSE <<>>)

\* (a variant whose every platform gets the Docker generator)
generateDeploymentConfigDockerOnly(params) ==
  Return(Text(JoinLines(generateDockerConfig(params.o.scale.s,
                                             OrElse(params.o.features, Arr(<<>>))), NL)))

generateDeploymentConfig(params) ==
  LET features == OrElse(params.o.features, Arr(<<>>))
      platform == params.o.platform.s
      scale == params.o.scale.s
  IN  Return(Text(JoinLines(
        CASE platform = "kubernetes" -> generateKubernetesConfig(scale, features)
          [] platform = "docker" -> generateDockerConfig(scale, features)
          [] platform = "aws" -> generateAWSConfig(scale, features)
          [] platform = "gcp" -> generateGCPConfig(scale, features)
          [] platform = "azure" -> generateAzureConfig(scale, features)
          [] OTHER -> generateDockerConfig(scale, features), NL)))

(***************************************************************************)
(* tools/watch.ts.  The two generators are kept as their title line and    *)
(* the lines that interpolate command, targets, the paths and debounce.    *)
(***************************************************************************)
generateIbazelConfig(command, targets) ==
  <<"# Automatic Build with iBazel (Recommended)", "## Usage">>
  \o (CASE command = "build" -> <<"### Watch and Build", "ibazel build " \o targets>>
        [] command = "test" -> <<"### Watch and Test", "ibazel test " \o targets>>
        [] command = "both" ->
             <<"### Watch, Build and Test", "ibazel build " \o targets,
               "ibazel test " \o targets, "ibazel build " \o targets \o " &",
               "ibazel test " \o targets \o " &", "wait">>
        [] OTHER -> <<>>)
  \o <<"## With Nativelink Cloud", "## Benefits">>

generateWatchConfig(command, targets, watchPaths, excludePaths, debounce) ==
  LET bazelCommands ==
        (IF command \in {"build", "both"} THEN <<"bazel build " \o targets>> ELSE <<>>)
        \o (IF command \in {"test", "both"} THEN <<"bazel test " \o targets>> ELSE <<>>)
  IN  <<"# File Watcher Configuration for Bazel + Nativelink",
        "## Option 1: Using watchexec (Recommended)",
        "### Run with watchexec:",
        "watchexec \\",
        "  --debounce " \o ToString(debounce) \o " \\",
        "  " \o Join([i \in 1..Len(excludePaths.a) |->
                        "--ignore '" \o excludePaths.a[i].s \o "'"], " \\\n  ") \o " \\",
        "  " \o Join([i \in 1..Len(watchPaths.a) |->
                        "--watch '" \o watchPaths.a[i].s \o "'"], " \\\n  ") \o " \\",
        "  --clear \\",
        "  -- \"" \o Join(bazelCommands, " && ") \o "\"">>

DefaultWatchPaths ==
  Arr(<<Str("**/*.rs"), Str("**/*.cc"), Str("**/*.cpp"), Str("**/*.java"), Str("**/*.py"),
        Str("**/*.go"), Str("**/*.ts"), Str("**/*.js"), Str("BUILD.bazel"),
        Str("WORKSPACE")>>)

DefaultExcludePaths ==
  Arr(<<Str("bazel-*"), Str("node_modules"), Str(".git"), Str("dist"), Str("target")>>)

\* (a variant that reads the length of watchPaths without the fallback)
setupWatchAndBuildRequiringPaths(params) ==
  IF params.o.watchPaths.t = "undefined"
  THEN Throw("TypeError", "Cannot read properties of undefined (reading 'length')")
  ELSE Return(Text(JoinLines(
         generateWatchConfig(OrElse(params.o.command, Str("both")).s,
                             OrElse(params.o.targets, Str("//...")).s,
                             params.o.watchPaths,
                             OrElse(params.o.excludePaths, DefaultExcludePaths),
                             OrElse(params.o.debounceMs, Num(1000)).num), NL)))

setupWatchAndBuild(params) ==
  LET command == OrElse(params.o.command, Str("both")).s
      targets == OrElse(params.o.targets, Str("//...")).s
      debounce == OrElse(params.o.debounceMs, Num(1000)).num
      useIbazel == params.o.useIbazel
  IN  IF ~Falsy(useIbazel)
      THEN Return(Text(JoinLines(generateIbazelConfig(command, targets), NL)))
      ELSE Return(Text(JoinLines(
             generateWatchConfig(command, targets,
                                 OrElse(params.o.watchPaths, DefaultWatchPaths),
                                 OrElse(params.o.excludePaths, DefaultExcludePaths),
                                 debounce), NL)))

(***************************************************************************)
(* index.ts: the tool list and the two call-tool dispatchers               *)
(***************************************************************************)
Tool(name, description, inputSchema) ==
  [name |-> name, description |-> description, inputSchema |-> inputSchema]

\* (a variant of the HTTP list: the descriptors of the other list without their
\* input schemas)
HttpToolsWithoutSchemas ==
  <<[name |-> "get-bazel-config",
     description |-> "Generate optimal Bazel configuration for Nativelink"],
    [name |-> "get-nativelink-docs",
     description |-> "Fetch Nativelink documentation and best practices"],
    [name |-> "analyze-build-performance",
     description |-> "Analyze build performance and provide optimization recommendations"],
    [name |-> "generate-deployment-config",
     description |-> "Generate deployment configuration for Nativelink"],
    [name |-> "setup-watch-and-build",
     description |->
       "Set up automatic Bazel builds and tests on file changes with Nativelink"]>>

\* the ListToolsRequestSchema handler's list
StdioTools ==
  <<Tool("get-bazel-config",
         "Generate optimal Bazel configuration for Nativelink",
         [type |-> "object",
          properties |->
            [projectType |-> [type |-> "string", enum |-> <<"rust", "cpp", "java", "python", "go", "mixed">>,
                              description |-> "Type of project"],
             nativelinkUrl |-> [type |-> "string", description |-> "Nativelink server URL (defaults to cloud)"],
             features |-> [type |-> "array", items |-> [type |-> "string"],
                           description |-> "Features to enable: remote_cache, remote_execution, metrics"]],
          required |-> <<"projectType">>]),
    Tool("get-nativelink-docs",
         "Fetch Nativelink documentation and best practices",
         [type |-> "object",
          properties |->
            [topic |-> [type |-> "string", enum |-> <<"setup", "migration", "optimization", "troubleshooting", "api">>,
                        description |-> "Documentation topic"],
             context |-> [type |-> "string", description |-> "Additional context or specific question"],
             maxTokens |-> [type |-> "number", description |-> "Maximum tokens to return (min 1000, default 5000)"]],
          required |-> <<"topic">>]),
    Tool("analyze-build-performance",
         "Analyze build performance and provide optimization recommendations",
         [type |-> "object",
          properties |->
            [profileData |-> [type |-> "string", description |-> "Bazel profile JSON data"],
             metrics |-> 
            [type |-> "object",
            properties |->
              [totalTime |-> [type |-> "number", description |-> "Total build time in seconds"],
               cacheHitRate |-> [type |-> "number", description |-> "Cache hit rate (0-1)"],
               remoteExecutionTime |-> [type |-> "number", description |-> "Remote execution time in seconds"],
               localExecutionTime |-> [type |-> "number", description |-> "Local execution time in seconds"],
               networkTransferSize |-> [type |-> "number", description |-> "Network transfer size in bytes"]],
            description |-> "Build metrics"],
             targetOptimization |-> [type |-> "string", enum |-> <<"speed", "cost", "balanced">>,
                                     description |-> "Optimization target"]]]),
    Tool("generate-deployment-config",
         "Generate deployment configuration for Nativelink",
         [type |-> "object",
          properties |->
            [platform |-> [type |-> "string", enum |-> <<"kubernetes", "docker", "aws", "gcp", "azure">>,
                           description |-> "Deployment platform"],
             scale |-> [type |-> "string", enum |-> <<"small", "medium", "large", "enterprise">>,
                        description |-> "Deployment scale"],
             features |-> [type |-> "array", items |-> [type |-> "string"],
                           description |-> "Features to enable: monitoring, autoscaling, high_availability"]],
          required |-> <<"platform", "scale">>]),
    Tool("setup-watch-and-build",
         "Set up automatic Bazel builds and tests on file changes with Nativelink",
         [type |-> "object",
          properties |->
            [command |-> [type |-> "string", enum |-> <<"build", "test", "both">>,
                          description |-> "What to run on file changes (default: both)"],
             targets |-> [type |-> "string", description |-> "Bazel targets to build/test (default: //...)"],
             watchPaths |-> [type |-> "array", items |-> [type |-> "string"],
                             description |-> "Paths/patterns to watch for changes"],
             excludePaths |-> [type |-> "array", items |-> [type |-> "string"],
                               description |-> "Paths/patterns to exclude from watching"],
             debounceMs |-> [type |-> "number", description |-> "Milliseconds to wait before rebuilding (100-10000, default: 1000)"],
             useIbazel |-> [type |-> "boolean", description |-> "Use iBazel for intelligent watching (recommended)"]]])>>

\* the list the HTTP listener writes out for tools/list
HttpTools ==
  <<Tool("get-bazel-config",
         "Generate optimal Bazel configuration for Nativelink",
         [type |-> "object",
          properties |->
            [projectType |-> [type |-> "string", enum |-> <<"rust", "cpp", "java", "python", "go", "mixed">>,
                              description |-> "Type of project"],
             nativelinkUrl |-> [type |-> "string", description |-> "Nativelink server URL (defaults to cloud)"],
             features |-> [type |-> "array", items |-> [type |-> "string"],
                           description |-> "Features to enable: remote_cache, remote_execution, metrics"]],
          required |-> <<"projectType">>]),
    Tool("get-nativelink-docs",
         "Fetch Nativelink documentation and best practices",
         [type |-> "object",
          properties |->
            [topic |-> [type |-> "string", enum |-> <<"setup", "migration", "optimization", "troubleshooting", "api">>,
                        description |-> "Documentation topic"],
             context |-> [type |-> "string", description |-> "Additional context or specific question"],
             maxTokens |-> [type |-> "number", description |-> "Maximum tokens to return (min 1000, default 5000)"]],
          required |-> <<"topic">>]),
    Tool("analyze-build-performance",
         "Analyze build performance and provide optimization recommendations",
         [type |-> "object",
          properties |->
            [profileData |-> [type |-> "string", description |-> "Bazel profile JSON data"],
             metrics |-> 
            [type |-> "object",
            properties |->
              [totalTime |-> [type |-> "number", description |-> "Total build time in seconds"],
               cacheHitRate |-> [type |-> "number", description |-> "Cache hit rate (0-1)"],
               remoteExecutionTime |-> [type |-> "number", description |-> "Remote execution time in seconds"],
               localExecutionTime |-> [type |-> "number", description |-> "Local execution time in seconds"],
               networkTransferSize |-> [type |-> "number", description |-> "Network transfer size in bytes"]],
            description |-> "Build metrics"],
             targetOptimization |-> [type |-> "string", enum |-> <<"speed", "cost", "balanced">>,
                                     description |-> "Optimization target"]]]),
    Tool("generate-deployment-config",
         "Generate deployment configuration for Nativelink",
         [type |-> "object",
          properties |->
            [platform |-> [type |-> "string", enum |-> <<"kubernetes", "docker", "aws", "gcp", "azure">>,
                           description |-> "Deployment platform"],
             scale |-> [type |-> "string", enum |-> <<"small", "medium", "large", "enterprise">>,
                        description |-> "Deployment scale"],
             features |-> [type |-> "array", items |-> [type |-> "string"],
                           description |-> "Features to enable: monitoring, autoscaling, high_availability"]],
          required |-> <<"platform", "scale">>]),
    Tool("setup-watch-and-build",
         "Set up automatic Bazel builds and tests on file changes with Nativelink",
         [type |-> "object",
          properties |->
            [command |-> [type |-> "string", enum |-> <<"build", "test", "both">>,
                          description |-> "What to run on file changes (default: both)"],
             targets |-> [type |-> "string", description |-> "Bazel targets to build/test (default: //...)"],
             watchPaths |-> [type |-> "array", items |-> [type |-> "string"],
                             description |-> "Paths/patterns to watch for changes"],
             excludePaths |-> [type |-> "array", items |-> [type |-> "string"],
                               description |-> "Paths/patterns to exclude from watching"],
             debounceMs |-> [type |-> "number", description |-> "Milliseconds to wait before rebuilding (100-10000, default: 1000)"],
             useIbazel |-> [type |-> "boolean", description |-> "Use iBazel for intelligent watching (recommended)"]]])>>

\* the case labels of the two switch statements
ToolNames ==
  {"get-bazel-config", "get-nativelink-docs", "analyze-build-performance",
   "generate-deployment-config", "setup-watch-and-build"}

ZodError(errors) == [thrown |-> TRUE, name |-> "ZodError", errors |-> errors]
McpError(code, message) ==
  [thrown |-> TRUE, name |-> "McpError", code |-> code, message |-> message]

\* the schema a case parses its arguments with
SchemaOf(name) ==
  CASE name = "get-bazel-config" -> GetBazelConfigSchema
    [] name = "get-nativelink-docs" -> GetNativelinkDocsSchema
    [] name = "analyze-build-performance" -> AnalyzeBuildPerformanceSchema
    [] name = "generate-deployment-config" -> GenerateDeploymentConfigSchema
    [] name = "setup-watch-and-build" -> SetupWatchAndBuildSchema

\* the handler a case calls with the parsed params
HandlerOf(name, params, api, outcome, now) ==
  CASE name = "get-bazel-config" -> generateBazelConfig(params, now)
    [] name = "get-nativelink-docs" -> getNativelinkDocs(params, api, outcome)
    [] name = "analyze-build-performance" -> analyzeBuildPerformance(params, api, outcome)
    [] name = "generate-deployment-config" -> generateDeploymentConfig(params)
    [] name = "setup-watch-and-build" -> setupWatchAndBuild(params)

\* (a variant that runs the handler on the schema's defaults when the arguments
\* do not parse)
RunToolOnDefaultsWhenInvalid(name, args, api, outcome, now) ==
  LET p == Parse(SchemaOf(name), args)
      d == Parse(SchemaOf(name), Obj(<<>>))
  IN  IF p.ok THEN HandlerOf(name, p.value, api, outcome, now)
      ELSE IF d.ok THEN HandlerOf(name, d.value, api, outcome, now)
      ELSE ZodError(p.errors)

\* one case of the switch: Schema.parse(args), then the handler
RunTool(name, args, api, outcome, now) ==
  LET p == Parse(SchemaOf(name), args)
  IN  IF p.ok THEN HandlerOf(name, p.value, api, outcome, now)
      ELSE ZodError(p.errors)

\* whether the case awaits an outbound fetch before it returns
IssuesFetch(name, args, api) ==
  /\ name \in {"get-nativelink-docs", "analyze-build-performance"}
  /\ Parse(SchemaOf(name), args).ok
  /\ name = "analyze-build-performance" => UsesAI(api)

\* the request that fetch sends
FetchOf(name, args, api) ==
  LET params == Parse(SchemaOf(name), args).value
  IN  IF name = "get-nativelink-docs"
      THEN DocsRequest(api, params.o.topic.s, params.o.context)
      ELSE AnalyzeRequest(api, OrElse(params.o.metrics, Obj(<<>>)))

TextContent(text) == [content |-> <<[type |-> "text", text |-> text]>>]

\* `${v}` for a tool name
NameString(v) ==
  CASE v.t = "string" -> v.s
    [] v.t = "undefined" -> "undefined"
    [] v.t = "null" -> "null"
    [] OTHER -> "[" \o v.t \o "]"

\* request.params?.key
ParamsProperty(request, key) == Property(Property(request, "params"), key)

\* The stdio binding's CallToolRequestSchema handler.  An error code is the
\* name of the ErrorCode member the McpError is built with.
StdioCallTool(request, api, outcome, now) ==
  LET name == ParamsProperty(request, "name")
      args == ParamsProperty(request, "arguments")
      r == IF name.t = "string" /\ name.s \in ToolNames
           THEN RunTool(name.s, args, api, outcome, now)
           ELSE McpError("MethodNotFound", "Tool not found: " \o NameString(name))
  IN  IF r.thrown
      THEN IF r.name = "ZodError"
           THEN McpError("InvalidParams", InvalidParamsMessage(r.errors))
           ELSE r
      ELSE Return(TextContent(r.value))

\* what the SDK's Server sends for a request handler's result or throw
StdioResponse(id, r) ==
  IF r.thrown
  THEN [jsonrpc |-> "2.0", id |-> id,
        error |-> [code |-> IF r.name = "McpError" THEN r.code ELSE "InternalError",
                   message |-> r.message]]
  ELSE [jsonrpc |-> "2.0", id |-> id, result |-> r.value]

\* apiKey || CONFIG.apiKey
EffectiveKey(config, apiKey) ==
  IF apiKey.t = "undefined" \/ apiKey.c = <<>> THEN config.apiKey ELSE apiKey

\* (a variant that stores the key in CONFIG and shares CONFIG with the api)
RequestApiOverwritingConfig(config, apiKey) ==
  LET shared == [config EXCEPT !.apiKey = EffectiveKey(config, apiKey)]
  IN  [api |-> NativelinkAPI(shared), CONFIG |-> shared]

\* new NativelinkAPI({ ...CONFIG, apiKey: apiKey || CONFIG.apiKey }): the api
\* object of this request, and CONFIG as the statement leaves it
RequestApi(config, apiKey) ==
  [api |-> NativelinkAPI([config EXCEPT !.apiKey = EffectiveKey(config, apiKey)]),
   CONFIG |-> config]

\* request.params?.arguments || {}
HttpArgs(request) == OrElse(ParamsProperty(request, "arguments"), Obj(<<>>))

\* the switch of the HTTP binding's tools/call branch: the content it
\* assigns, or what it throws
HttpSwitch(request, api, outcome, now) ==
  LET toolName == ParamsProperty(request, "name")
  IN  IF toolName.t = "string" /\ toolName.s \in ToolNames
      THEN RunTool(toolName.s, HttpArgs(request), api, outcome, now)
      ELSE Throw("Error", "Unknown tool: " \o NameString(toolName))

\* (a variant that keeps an empty content beside the error)
HttpResponseKeepingContent(r) ==
  IF r.thrown
  THEN [content |-> <<>>,
        error |-> [code |-> IF r.name = "ZodError" THEN "InvalidParams" ELSE "InternalError",
                   message |-> IF r.name = "ZodError" THEN InvalidParamsMessage(r.errors)
                               ELSE r.message]]
  ELSE TextContent(r.value)

\* the response object the inner try/catch builds from the switch's outcome
HttpResponse(r) ==
  IF r.thrown
  THEN IF r.name = "ZodError"
       THEN [error |-> [code |-> "InvalidParams",
                        message |-> InvalidParamsMessage(r.errors)]]
       ELSE [error |-> [code |-> "InternalError", message |-> r.message]]
  ELSE TextContent(r.value)

\* The HTTP binding's tools/call branch: the response object it answers with.
HttpCallTool(request, api, outcome, now) ==
  HttpResponse(HttpSwitch(request, api, outcome, now))

\* (a variant whose status follows the result)
HttpToolsCallStatusByResult(request, api, outcome, now) ==
  LET response == HttpCallTool(request, api, outcome, now)
  IN  [status |-> IF "error" \in DOMAIN response THEN 500 ELSE 200, response |-> response]

\* the tools/call branch as answered: writeHead(200) and the response object
HttpToolsCall(request, api, outcome, now) ==
  [status |-> 200, response |-> HttpCallTool(request, api, outcome, now)]

\* (variants of Route: /mcp without the method test; no OPTIONS branch)
RouteAnyVerbToMcp(verb, url) ==
  IF verb = "OPTIONS" THEN "preflight"
  ELSE IF url = "/ping" THEN "ping"
  ELSE IF url = "/mcp" THEN "mcp"
  ELSE "notFound"

RouteWithoutPreflight(verb, url) ==
  IF url = "/ping" THEN "ping"
  ELSE IF url = "/mcp" /\ verb = "POST" THEN "mcp"
  ELSE "notFound"

\* the listener's routing: which branch answers a request
Route(verb, url) ==
  IF verb = "OPTIONS" THEN "preflight"
  ELSE IF url = "/ping" THEN "ping"
  ELSE IF url = "/mcp" /\ verb = "POST" THEN "mcp"
  ELSE "notFound"

(***************************************************************************)
(* Inputs                                                                  *)
(***************************************************************************)
MaxConn == 2
MaxId == 2
MaxClock == 2
MaxHeaders == 2

Clock == 1..MaxClock
Ids == 1..MaxId

Bearer_t1 == Chars(<<"B", "e", "a", "r", "e", "r", " ", "t", "1">>)
bearer_t2 == Chars(<<"b", "e", "a", "r", "e", "r", " ", "\t", "t", "2">>)
Basic_x == Chars(<<"B", "a", "s", "i", "c", " ", "x">>)
BearerOnly == Chars(<<"B", "e", "a", "r", "e", "r">>)
Key_k0 == Chars(<<"k", "0">>)
Key_k2 == Chars(<<"k", "2">>)
Key_k3 == Chars(<<"k", "3">>)
Token_t1 == Chars(<<"t", "1">>)
Token_t2 == Chars(<<"t", "2">>)

\* req.headers as node delivers them: lower-case names, string values
RequestHeaders ==
  {<<>>,
   "authorization" :> Bearer_t1,
   ("authorization" :> bearer_t2) @@ ("x-api-key" :> Key_k2),
   "x-api-key" :> Key_k2,
   ("authorization" :> Basic_x) @@ ("nativelink-api-key" :> Key_k3)}


\* params of a tools/call: { name, arguments }, or { name } alone
Call(name, args) == Obj([name |-> Str(name), arguments |-> args])
CallNoArguments(name) == Obj([name |-> Str(name)])

BazelCalls ==
  {Call("get-bazel-config",
        Obj([projectType |-> Str("rust"), features |-> Arr(<<Str("remote_cache")>>)])),
   Call("get-bazel-config", Obj([projectType |-> Str("python")])),
   Call("get-bazel-config", Obj([projectType |-> Str("java"), extra |-> Num(1)])),
   Call("get-bazel-config", Obj(<<>>)),
   Call("get-bazel-config", Obj([projectType |-> Str("cobol"), features |-> Str("all")])),
   Call("get-bazel-config",
        Obj([projectType |-> Num(3), nativelinkUrl |-> Num(4),
             features |-> Arr(<<Str("bes"), Num(1), Null>>)]))}

DocsCalls ==
  {Call("get-nativelink-docs", Obj([topic |-> Str("setup")])),
   Call("get-nativelink-docs", Obj([topic |-> Str("api"), maxTokens |-> Num(1000)])),
   Call("get-nativelink-docs",
        Obj([topic |-> Str("migration"), context |-> Str("bazel 7"),
             maxTokens |-> Num(5000)])),
   Call("get-nativelink-docs", Obj([topic |-> Str("setup"), maxTokens |-> Num(10)])),
   Call("get-nativelink-docs",
        Obj([topic |-> Str("install"), context |-> Num(1), maxTokens |-> Num(999)])),
   Call("get-nativelink-docs", Obj([maxTokens |-> Str("5000")])),
   Call("get-nativelink-docs", Obj([context |-> Str("bazel 7")]))}

PerformanceCalls ==
  {CallNoArguments("analyze-build-performance"),
   Call("analyze-build-performance", Obj(<<>>)),
   Call("analyze-build-performance",
        Obj([metrics |-> Obj([cacheHitRate |-> Frac(3, 10), totalTime |-> Num(300)]),
             targetOptimization |-> Str("speed")])),
   Call("analyze-build-performance",
        Obj([metrics |-> Obj([networkTransferSize |-> Num(1024 * 1024 * 1000)]),
             targetOptimization |-> Str("cost"), profileData |-> Str("{}")])),
   Call("analyze-build-performance",
        Obj([metrics |-> Obj([cacheHitRate |-> Num(2), totalTime |-> Str("long")]),
             targetOptimization |-> Str("fast")])),
   Call("analyze-build-performance",
        Obj([metrics |-> Obj([cacheHitRate |-> Frac(0 - 1, 10)]),
             profileData |-> Num(0)]))}

DeploymentCalls ==
  {Call("generate-deployment-config",
        Obj([platform |-> Str("docker"), scale |-> Str("small"), features |-> Arr(<<>>)])),
   Call("generate-deployment-config",
        Obj([platform |-> Str("kubernetes"), scale |-> Str("medium"),
             features |-> Arr(<<Str("monitoring"), Str("autoscaling")>>)])),
   Call("generate-deployment-config", Obj([platform |-> Str("docker")])),
   Call("generate-deployment-config", Obj([scale |-> Str("large")])),
   Call("generate-deployment-config", Obj(<<>>)),
   Call("generate-deployment-config",
        Obj([platform |-> Str("vax"), scale |-> Str("huge"), features |-> Bool(TRUE)]))}

WatchCalls ==
  {CallNoArguments("setup-watch-and-build"),
   Call("setup-watch-and-build", Obj([useIbazel |-> Bool(TRUE), command |-> Str("test")])),
   Call("setup-watch-and-build", Obj([debounceMs |-> Num(10000), targets |-> Str("//app")])),
   Call("setup-watch-and-build",
        Obj([debounceMs |-> Num(50), command |-> Str("run"), useIbazel |-> Str("yes"),
             watchPaths |-> Arr(<<Num(1)>>)]))}

\* calls that pass explicitly the values their tool declares as defaults
ExplicitDefaultCalls ==
  {Call("get-bazel-config",
        Obj([projectType |-> Str("python"),
             features |-> Arr(<<Str("remote_cache"), Str("remote_execution"), Str("bes")>>)])),
   Call("get-nativelink-docs", Obj([topic |-> Str("setup"), maxTokens |-> Num(5000)])),
   Call("analyze-build-performance", Obj([targetOptimization |-> Str("balanced")])),
   Call("setup-watch-and-build", Obj(<<>>)),
   Call("setup-watch-and-build",
        Obj([command |-> Str("both"), targets |-> Str("//..."), debounceMs |-> Num(1000),
             useIbazel |-> Bool(FALSE)]))}

\* valid calls with fields their schema does not declare
ExtraFieldCalls ==
  {Call("get-nativelink-docs", Obj([topic |-> Str("api"), verbose |-> Bool(TRUE)])),
   Call("analyze-build-performance",
        Obj([metrics |-> Obj([cacheHitRate |-> Frac(3, 10), bogus |-> Num(1)]),
             extra |-> Str("x")])),
   Call("generate-deployment-config",
        Obj([platform |-> Str("aws"), scale |-> Str("enterprise"), region |-> Null])),
   Call("setup-watch-and-build", Obj([useIbazel |-> Bool(TRUE), extra |-> Arr(<<>>)]))}

\* one bounded numeric field at and on either side of each of its bounds
BoundaryCalls ==
  {Call("get-nativelink-docs", Obj([topic |-> Str("setup"), maxTokens |-> Num(n)])) :
     n \in {999, 1000, 1001}}
    \cup {Call("analyze-build-performance", Obj([metrics |-> Obj([cacheHitRate |-> r])])) :
            r \in {Frac(0 - 1, 10), Num(0), Num(1), Frac(11, 10)}}
    \cup {Call("setup-watch-and-build", Obj([debounceMs |-> Num(n)])) :
            n \in {99, 100, 10000, 10001}}

\* every project type, with no feature and with features other than the cache
ProjectCalls ==
  {Call("get-bazel-config", Obj([projectType |-> Str(t), features |-> f])) :
     t \in {"rust", "cpp", "java", "python", "go", "mixed"},
     f \in {Arr(<<>>), Arr(<<Str("remote_execution"), Str("metrics")>>)}}

\* the two tested platforms at other scales and feature lists
PlatformCalls ==
  {Call("generate-deployment-config",
        Obj([platform |-> Str("kubernetes"), scale |-> Str("small"), features |-> Arr(<<>>)])),
   Call("generate-deployment-config",
        Obj([platform |-> Str("kubernetes"), scale |-> Str("large")])),
   Call("generate-deployment-config",
        Obj([platform |-> Str("docker"), scale |-> Str("enterprise"),
             features |-> Arr(<<Str("autoscaling"), Str("monitoring")>>)]))}

UnknownCalls ==
  {Call("nonexistent", Obj(<<>>)),
   Call("get-docs", Obj([topic |-> Str("setup")]))}

\* params the HTTP listener accepts and the SDK's request schema does not
LooseCalls ==
  {Obj([arguments |-> Obj(<<>>)]),
   Call("setup-watch-and-build", Null),
   Call("get-bazel-config", Str("rust"))}

Calls ==
  BazelCalls \cup DocsCalls \cup PerformanceCalls \cup DeploymentCalls
    \cup WatchCalls \cup ExplicitDefaultCalls \cup ExtraFieldCalls \cup BoundaryCalls
    \cup ProjectCalls \cup PlatformCalls \cup UnknownCalls

\* a JSON-RPC request message
Request(method, params, id) ==
  Obj([jsonrpc |-> Str("2.0"), method |-> Str(method), params |-> params, id |-> Num(id)])
ListRequest(id) == Obj([jsonrpc |-> Str("2.0"), method |-> Str("tools/list"), id |-> Num(id)])

\* the messages the stdio transport hands to the two request handlers
StdioRequests ==
  {ListRequest(id) : id \in Ids}
    \cup {Request("tools/call", params, id) : params \in Calls, id \in Ids}

\* the bodies of POST /mcp: text that is no JSON, or a parsed JSON value
HttpBodies ==
  {Malformed, Null, Num(5), Obj([method |-> Str("tools/call")]),
   Request("resources/list", Obj(<<>>), 1)}
    \cup {ListRequest(id) : id \in Ids}
    \cup {Request("tools/call", params, id) : params \in Calls \cup LooseCalls, id \in Ids}

ShortText == Text(<<Blob("online text", 120)>>)
LongText == Text(<<Blob("online long text", 4 * 1000 + 1)>>)
EdgeText == Text(<<Blob("online text at the limit", 4 * 1000)>>)

\* what the outbound fetch can come to
Outcomes ==
  {Reject("network"), Reject("timeout"),
   Response(404, Malformed), Response(500, Obj([content |-> ShortText])),
   Response(200, Malformed), Response(200, Null), Response(200, Obj(<<>>)),
   Response(200, Obj([content |-> ShortText, analysis |-> ShortText])),
   Response(200, Obj([content |-> LongText])),
   Response(200, Obj([content |-> EdgeText])),
   Response(200, Obj([content |-> Num(7), analysis |-> Num(7)]))}

Config(apiKey, anthropicKey, geminiKey, nativelinkUrl) ==
  [apiKey |-> apiKey, anthropicKey |-> anthropicKey, geminiKey |-> geminiKey,
   nativelinkUrl |-> nativelinkUrl]

\* CONFIG once the environment and the command line are read
Configs ==
  {Config(Undefined, Undefined, Undefined, Undefined),
   Config(Key_k0, Undefined, Undefined, Undefined),
   Config(Key_k0, Chars(<<"a">>), Undefined, Undefined),
   Config(Undefined, Undefined, Chars(<<"g">>), Str("http://localhost:8080"))}

(***************************************************************************)
(* State.  conn[c] follows one request of connection c (for stdio, one     *)
(* dispatched message): idle, body (the listener waits for the body),      *)
(* fetch (the handler awaits its outbound fetch), done (answered: the      *)
(* exchange holds what was received and what was sent).                    *)
(***************************************************************************)
Conns == 1..MaxConn

Idle == [pc |-> "idle"]
Done(exchange) == [pc |-> "done", ex |-> exchange]
NoCall == [headers |-> <<>>, result |-> Undefined, done |-> FALSE]

Raw(str) == [raw |-> str]
Json(v) == [json |-> v]
NotRead == [t |-> "unread"]

\* writeHead(status, { 'Content-Type': type }) and end(payload) on a response
\* that already carries the three Access-Control-Allow-* headers
HttpReply(verb, url, headers, request, fetch, outcome, now, status, type, payload) ==
  [binding |-> "http", verb |-> verb, url |-> url, headers |-> headers,
   request |-> request, fetch |-> fetch, outcome |-> outcome, now |-> now,
   status |-> status,
   allowOrigin |-> "*", allowMethods |-> "GET, POST, OPTIONS", allowHeaders |-> "*",
   contentType |-> type, payload |-> payload]

StdioReply(request, fetch, outcome, now, response) ==
  [binding |-> "stdio", request |-> request, fetch |-> fetch, outcome |-> outcome,
   now |-> now, response |-> response]

\* the outcome and the request of an exchange that issued no fetch
NoFetch == [kind |-> "none"]
NoOutbound == [url |-> ""]

\* the clock reading an exchange depends on: generateBazelConfig alone reads it
ClockRead(request, now) ==
  IF ParamsProperty(request, "name") = Str("get-bazel-config") THEN now ELSE 0

Init ==
  /\ CONFIG \in Configs
  /\ transport \in {"stdio", "http"}
  /\ conn = [c \in Conns |-> Idle]
  /\ pk = NoCall

(***************************************************************************)
(* The HTTP binding: createServer's request listener                       *)
(***************************************************************************)
Verbs == {"GET", "POST", "OPTIONS", "PUT"}
Urls == {"/ping", "/mcp", "/", "/mcp/"}
Targets == Verbs \X Urls

\* the listener up to the point where it waits for the body
HttpRequest(c, Lines, Headers) ==
  /\ transport = "http"
  /\ conn[c].pc \in {"idle", "done"}
  /\ \E line \in Lines, headers \in Headers :
       LET verb == line[1]
           url == line[2]
           route == Route(verb, url)
           Answer(status, type, payload) ==
             conn' = [conn EXCEPT ![c] =
                        Done(HttpReply(verb, url, headers, NotRead, NoOutbound, NoFetch, 0,
                                       status, type, payload))]
       IN  CASE route = "preflight" -> Answer(204, "", Raw(""))
             [] route = "ping" -> Answer(200, "text/plain", Raw("pong"))
             [] route = "mcp" ->
                  conn' = [conn EXCEPT ![c] = [pc |-> "body", binding |-> "http",
                                               verb |-> verb, url |-> url,
                                               headers |-> headers]]
             [] OTHER -> Answer(404, "text/plain", Raw("Not found"))
  /\ UNCHANGED <<CONFIG, transport, pk>>

\* (a variant that answers every body that is no JSON object from the catch)
McpAnswersObjectsOnly(request, called) ==
  IF request.t # "object"
  THEN <<[status |-> 500, payload |-> Json([error |-> "Internal server error"])]>>
  ELSE IF Property(request, "method") = Str("tools/list")
  THEN <<[status |-> 200, payload |-> Json([tools |-> HttpTools])]>>
  ELSE IF Property(request, "method") = Str("tools/call")
  THEN <<[status |-> called.status, payload |-> Json(called.response)]>>
  ELSE <<[status |-> 404, payload |-> Json([error |-> "Method not found"])]>>

\* (a variant whose unknown-method branch does not return)
McpAnswersFallingThrough(request, called) ==
  IF request.t \in {"malformed", "null"}
  THEN <<[status |-> 500, payload |-> Json([error |-> "Internal server error"])]>>
  ELSE IF Property(request, "method") = Str("tools/list")
  THEN <<[status |-> 200, payload |-> Json([tools |-> HttpTools])]>>
  ELSE IF Property(request, "method") = Str("tools/call")
  THEN <<[status |-> called.status, payload |-> Json(called.response)]>>
  ELSE <<[status |-> 404, payload |-> Json([error |-> "Method not found"])],
         [status |-> 200, payload |-> Json(<<>>)]>>

\* the responses the 'end' callback writes for a body, in order: writeHead and
\* end in the catch, after the branches of tools/list and tools/call, or in the
\* branch of any other method, which returns; called is the answer of the
\* tools/call branch
McpAnswers(request, called) ==
  IF request.t \in {"malformed", "null"}
  THEN <<[status |-> 500, payload |-> Json([error |-> "Internal server error"])]>>
  ELSE IF Property(request, "method") = Str("tools/list")
  THEN <<[status |-> 200, payload |-> Json([tools |-> HttpTools])]>>
  ELSE IF Property(request, "method") = Str("tools/call")
  THEN <<[status |-> called.status, payload |-> Json(called.response)]>>
  ELSE <<[status |-> 404, payload |-> Json([error |-> "Method not found"])]>>

\* req.on('end'): the body is complete; parse it and answer, or start the
\* outbound fetch of a network-backed tool
HttpEnd(c, Bodies) ==
  /\ conn[c].pc = "body"
  /\ \E body \in Bodies, now \in Clock :
       LET request == body
           verb == conn[c].verb
           url == conn[c].url
           headers == conn[c].headers
           method == Property(request, "method")
           made == RequestApi(CONFIG, parseApiKey(headers))
           api == made.api
           toolName == ParamsProperty(request, "name")
           t == ClockRead(request, now)
           Answer(written) ==
             conn' = [conn EXCEPT ![c] =
                        Done(HttpReply(verb, url, headers, body, NoOutbound, NoFetch, t,
                                       written[1].status, "application/json",
                                       written[1].payload)
                               @@ [writes |-> Len(written)])]
       IN  IF body.t \in {"malformed", "null"} \/ method # Str("tools/call")
           THEN Answer(McpAnswers(request, <<>>)) /\ CONFIG' = CONFIG
           ELSE /\ CONFIG' = made.CONFIG
                /\ IF toolName.t = "string" /\ toolName.s \in ToolNames
                      /\ IssuesFetch(toolName.s, HttpArgs(request), api)
                   THEN conn' = [conn EXCEPT ![c] =
                                   [pc |-> "fetch", binding |-> "http", verb |-> verb,
                                    url |-> url, headers |-> headers, request |-> request,
                                    api |-> api,
                                    fetch |-> FetchOf(toolName.s, HttpArgs(request), api)]]
                   ELSE Answer(McpAnswers(request, HttpToolsCall(request, api, NoFetch, t)))
  /\ UNCHANGED <<transport, pk>>

\* the awaited fetch settles and the tools/call branch runs to its end
HttpFetchDone(c, Settled) ==
  /\ conn[c].pc = "fetch"
  /\ conn[c].binding = "http"
  /\ \E outcome \in Settled :
       LET written == McpAnswers(conn[c].request,
                                 HttpToolsCall(conn[c].request, conn[c].api, outcome, 0))
       IN  conn' = [conn EXCEPT ![c] =
                      Done(HttpReply(conn[c].verb, conn[c].url, conn[c].headers,
                                     conn[c].request, conn[c].fetch, outcome, 0,
                                     written[1].status, "application/json",
                                     written[1].payload)
                             @@ [writes |-> Len(written)])]
  /\ UNCHANGED <<CONFIG, transport, pk>>

(***************************************************************************)
(* The stdio binding: the server's two request handlers                    *)
(***************************************************************************)
\* the api object createNativelinkServer builds once from CONFIG
ServerApi == NativelinkAPI(CONFIG)

StdioRequest(c, Requests) ==
  /\ transport = "stdio"
  /\ conn[c].pc \in {"idle", "done"}
  /\ \E request \in Requests, now \in Clock :
       LET id == Property(request, "id")
           name == ParamsProperty(request, "name")
           args == ParamsProperty(request, "arguments")
           t == ClockRead(request, now)
           Answer(r) ==
             conn' = [conn EXCEPT ![c] =
                        Done(StdioReply(request, NoOutbound, NoFetch, t,
                                        StdioResponse(id, r)))]
       IN  IF Property(request, "method") = Str("tools/list")
           THEN Answer(Return([tools |-> StdioTools]))
           ELSE IF name.s \in ToolNames /\ IssuesFetch(name.s, args, ServerApi)
           THEN conn' = [conn EXCEPT ![c] =
                           [pc |-> "fetch", binding |-> "stdio", verb |-> "", url |-> "",
                            headers |-> <<>>,
                            request |-> request, api |-> ServerApi,
                            fetch |-> FetchOf(name.s, args, ServerApi)]]
           ELSE Answer(StdioCallTool(request, ServerApi, NoFetch, t))
  /\ UNCHANGED <<CONFIG, transport, pk>>

StdioFetchDone(c, Settled) ==
  /\ conn[c].pc = "fetch"
  /\ conn[c].binding = "stdio"
  /\ \E outcome \in Settled :
       conn' = [conn EXCEPT ![c] =
                  Done(StdioReply(conn[c].request, conn[c].fetch, outcome, 0,
                                  StdioResponse(Property(conn[c].request, "id"),
                                                StdioCallTool(conn[c].request, conn[c].api,
                                                              outcome, 0))))]
  /\ UNCHANGED <<CONFIG, transport, pk>>

(***************************************************************************)
(* The stdio transport's line reader and the SIGINT handlers.  The reader  *)
(* belongs to StdioServerTransport, whose code is outside the sources: a   *)
(* line that is no JSON is reported to the error callback and dropped, and *)
(* the channel stays as it was.                                            *)
(***************************************************************************)
\* (a variant that tears the channel down on a line that is no JSON)
OnMalformedLineClosing(slot) == [pc |-> "closed"]

\* the slot after a line that is no JSON: nothing in flight, the error reported
OnMalformedLine(slot) == [pc |-> "idle", onerror |-> "parse error"]

StdioMalformedLine(c) ==
  /\ transport = "stdio"
  /\ conn[c].pc \in {"idle", "done"}
  /\ conn' = [conn EXCEPT ![c] = OnMalformedLine(conn[c])]
  /\ UNCHANGED <<CONFIG, transport, pk>>

\* process.on('SIGINT'): close the server, then process.exit(0)
Sigint ==
  /\ transport \in {"stdio", "http"}
  /\ transport' = "exited"
  /\ UNCHANGED <<CONFIG, conn, pk>>

(***************************************************************************)
(* Specifications                                                          *)
(***************************************************************************)
\* one request at a time, over all the sample requests and outcomes
Next ==
  \/ HttpRequest(1, Targets, RequestHeaders)
  \/ HttpEnd(1, HttpBodies)
  \/ HttpFetchDone(1, Outcomes)
  \/ StdioRequest(1, StdioRequests)
  \/ StdioFetchDone(1, Outcomes)

Spec == Init /\ [][Next]_vars

\* One request at a time over a few sample requests, with the scheduling the
\* event loop gives: a callback whose event has fired does run (the 'end'
\* callback once a body is on its way), while nothing obliges the remote end to
\* settle an outbound fetch and the program arms no timer of its own.
HangHeaders == {<<>>, "x-api-key" :> Key_k2}
HangTargets == {<<"POST", "/mcp">>, <<"GET", "/ping">>}
HangCalls ==
  {Call("get-nativelink-docs", Obj([topic |-> Str("setup")])),
   Call("analyze-build-performance", Obj(<<>>)),
   Call("get-bazel-config", Obj([projectType |-> Str("rust")]))}
HangBodies == {Malformed, ListRequest(1)} \cup {Request("tools/call", p, 1) : p \in HangCalls}
HangRequests == {ListRequest(1)} \cup {Request("tools/call", p, 1) : p \in HangCalls}
HangOutcomes == {Reject("network"), Response(200, Obj([content |-> ShortText]))}

NextHang ==
  \/ HttpRequest(1, HangTargets, HangHeaders)
  \/ HttpEnd(1, HangBodies)
  \/ HttpFetchDone(1, HangOutcomes)
  \/ StdioRequest(1, HangRequests)
  \/ StdioFetchDone(1, HangOutcomes)

SpecHang == Init /\ [][NextHang]_vars /\ WF_vars(HttpEnd(1, HangBodies))

\* the stdio channel alone: requests, lines that are no JSON, and shutdown
StreamRequests ==
  {ListRequest(id) : id \in Ids}
    \cup {Request("tools/call", p, id) : p \in HangCalls \cup UnknownCalls, id \in Ids}

NextStream ==
  \/ StdioRequest(1, StreamRequests)
  \/ StdioFetchDone(1, HangOutcomes)
  \/ StdioMalformedLine(1)
  \/ Sigint

SpecStream == Init /\ [][NextStream]_vars

\* concurrent requests on every connection, over a few sample requests
ConcHeaders == {<<>>, "authorization" :> Bearer_t1, "x-api-key" :> Key_k2}
ConcTargets == {<<"POST", "/mcp">>, <<"GET", "/ping">>}
ConcBodies ==
  {Request("tools/call", Call("get-nativelink-docs", Obj([topic |-> Str("setup")])), 1),
   Request("tools/call",
           Call("analyze-build-performance", Obj([targetOptimization |-> Str("cost")])), 2)}
ConcOutcomes == {Reject("network"), Response(200, Obj([content |-> ShortText]))}

NextConc ==
  \E c \in Conns :
    \/ HttpRequest(c, ConcTargets, ConcHeaders)
    \/ HttpEnd(c, ConcBodies)
    \/ HttpFetchDone(c, ConcOutcomes)
    \/ StdioRequest(c, ConcBodies)
    \/ StdioFetchDone(c, ConcOutcomes)

SpecConc == Init /\ [][NextConc]_vars

(***************************************************************************)
(* parseApiKey as a function of its argument                               *)
(***************************************************************************)
HeaderNames == Range(headerKeys)

HeaderValues ==
  {Chars(<<>>), Bearer_t1, bearer_t2, Basic_x, BearerOnly, Key_k2,
   Arr(<<Bearer_t1, Key_k3>>), Arr(<<Key_k3>>)}

\* every headers object with at most MaxHeaders of the names parseApiKey reads
HeaderSamples ==
  UNION {[K -> HeaderValues] :
           K \in {S \in SUBSET HeaderNames : Cardinality(S) <= MaxHeaders}}

InitParse ==
  /\ CONFIG = Config(Undefined, Undefined, Undefined, Undefined)
  /\ transport = "http"
  /\ conn = [c \in Conns |-> Idle]
  /\ pk \in {[headers |-> h, result |-> Undefined, done |-> FALSE] : h \in HeaderSamples}

ParseApiKeyCall ==
  /\ ~pk.done
  /\ pk' = [pk EXCEPT !.result = parseApiKey(pk.headers), !.done = TRUE]
  /\ UNCHANGED <<CONFIG, transport, conn>>

NextParse == ParseApiKeyCall

SpecParse == InitParse /\ [][NextParse]_vars

(***************************************************************************)
(* Properties.  An exchange is a request that has been answered; its       *)
(* envelope is what the caller receives: the HTTP payload's JSON value, or *)
(* the result / error part of the stdio response.                          *)
(***************************************************************************)
Exchanges == {conn[c].ex : c \in {d \in Conns : conn[d].pc = "done"}}

IsToolsCall(ex) == Property(ex.request, "method") = Str("tools/call")
ToolOf(ex) == ParamsProperty(ex.request, "name")
Fetched(ex) == ex.fetch # NoOutbound

Envelope(ex) ==
  IF ex.binding = "http" THEN ex.payload.json
  ELSE IF "error" \in DOMAIN ex.response THEN [error |-> ex.response.error]
  ELSE ex.response.result

IsSuccess(envelope) == "content" \in DOMAIN envelope
IsFailure(envelope) == "error" \in DOMAIN envelope
TextOf(envelope) == envelope.content[1].text

OutboundFailed(outcome) == outcome.kind = "reject" \/ ~ResponseOk(outcome)

\* C1: every get-nativelink-docs call with valid arguments, whatever the outcome
\* of its outbound request, is answered by a success envelope carrying a text
DocsOutcomeNeverToolError ==
  \A ex \in Exchanges :
    IsToolsCall(ex) /\ ToolOf(ex) = Str("get-nativelink-docs") /\ Fetched(ex)
      => /\ IsSuccess(Envelope(ex))
         /\ TextOf(Envelope(ex)).t = "string"

\* the text analyze-build-performance gives for these arguments when no AI
\* provider key is configured, so that no outbound request is attempted
NoKeys == Config(Undefined, Undefined, Undefined, Undefined)
TextWithoutOutbound(ex) ==
  RunTool("analyze-build-performance", HttpArgs(ex.request), NativelinkAPI(NoKeys),
          NoFetch, 0).value

\* C2: an analyze-build-performance call whose outbound request fails (exception
\* or non-2xx) succeeds with a non-empty text equal to the text produced for the
\* same arguments when no outbound request is attempted
PerformanceFallsBackOffline ==
  \A ex \in Exchanges :
    IsToolsCall(ex) /\ ToolOf(ex) = Str("analyze-build-performance") /\ Fetched(ex)
      /\ OutboundFailed(ex.outcome)
      => /\ IsSuccess(Envelope(ex))
         /\ Length(TextOf(Envelope(ex)).x) > 0
         /\ TextOf(Envelope(ex)) = TextWithoutOutbound(ex)

PerformanceFallsBackOfflineWitness ==
  \E ex \in Exchanges :
    /\ IsToolsCall(ex) /\ ToolOf(ex) = Str("analyze-build-performance") /\ Fetched(ex)
    /\ ex.outcome = Response(500, Obj([content |-> ShortText]))
    /\ "metrics" \in DOMAIN HttpArgs(ex.request).o
    /\ IsSuccess(Envelope(ex))

\* C3: in both bindings a tools/call naming no catalogue tool is answered by a
\* failure envelope with code MethodNotFound whose message contains the name
UnknownToolIsMethodNotFound ==
  \A ex \in Exchanges :
    IsToolsCall(ex) /\ ToolOf(ex).t = "string" /\ ToolOf(ex).s \notin ToolNames
      => /\ IsFailure(Envelope(ex))
         /\ Envelope(ex).error.code = "MethodNotFound"
         /\ Envelope(ex).error.message
              \in {"Tool not found: " \o ToolOf(ex).s, "Unknown tool: " \o ToolOf(ex).s}
         /\ ~Fetched(ex)

\* the envelope the other binding gives for the same request, configuration,
\* outbound outcome and clock reading
EnvelopeOfOtherBinding(ex) ==
  IF ex.binding = "http"
  THEN LET r == StdioResponse(Null, StdioCallTool(ex.request, ServerApi, ex.outcome, ex.now))
       IN  IF "error" \in DOMAIN r THEN [error |-> r.error] ELSE r.result
  ELSE HttpCallTool(ex.request, ServerApi, ex.outcome, ex.now)

\* a tools/call both bindings accept: a tool name and, if present, an arguments
\* object
WellFormedCall(ex) ==
  /\ IsToolsCall(ex)
  /\ ToolOf(ex).t = "string"
  /\ ParamsProperty(ex.request, "arguments").t \in {"object", "undefined"}

\* C4: for every tool name and arguments both bindings produce the same envelope
BindingsAgree ==
  \A ex \in Exchanges :
    WellFormedCall(ex) => Envelope(ex) = EnvelopeOfOtherBinding(ex)

\* C5: the HTTP binding answers every POST /mcp tools/call with status 200, the
\* outcome being carried in the JSON body
ToolsCallAlwaysStatus200 ==
  \A ex \in Exchanges :
    ex.binding = "http" /\ IsToolsCall(ex)
      => /\ ex.status = 200
         /\ ex.contentType = "application/json"
         /\ IsSuccess(Envelope(ex)) \/ IsFailure(Envelope(ex))

ToolsCallAlwaysStatus200Witness ==
  /\ \E ex \in Exchanges :
       /\ ex.binding = "http" /\ IsToolsCall(ex) /\ ex.status = 200
       /\ IsFailure(Envelope(ex))
       /\ Envelope(ex).error.code = "InternalError"
       /\ Fetched(ex)

\* a connection whose request is past the routing and not yet answered
InFlight(c) == conn[c].pc \in {"body", "fetch"} /\ conn[c].binding = "http"

IsPong(ex) ==
  /\ ex.status = 200 /\ ex.contentType = "text/plain" /\ ex.payload = Raw("pong")
  /\ ex.request = NotRead

IsNotFound(ex) ==
  /\ ex.status = 404 /\ ex.contentType = "text/plain" /\ ex.payload = Raw("Not found")
  /\ ex.request = NotRead

IsDispatched(ex) == ex.request # NotRead /\ ex.contentType = "application/json"

\* C6, as the listener routes: every non-OPTIONS request to /ping, whatever its
\* method, is answered 200 "pong"; POST /mcp is dispatched, and nothing else is;
\* every other non-OPTIONS request is answered 404
RoutesByPathThenMethod ==
  /\ \A c \in Conns : InFlight(c) => conn[c].verb = "POST" /\ conn[c].url = "/mcp"
  /\ \A ex \in Exchanges :
       ex.binding = "http" /\ ex.verb # "OPTIONS"
         => IF ex.url = "/ping" THEN IsPong(ex)
            ELSE IF ex.url = "/mcp" /\ ex.verb = "POST" THEN IsDispatched(ex)
            ELSE IsNotFound(ex)

RoutesByPathThenMethodWitness ==
  \E ex \in Exchanges :
    ex.binding = "http" /\ ex.verb = "PUT" /\ ex.url = "/ping" /\ IsPong(ex)

\* C6, as stated: GET /ping is answered 200 "pong", POST /mcp is dispatched, and
\* every other non-OPTIONS request, other methods on /ping and /mcp included,
\* is answered 404
RoutesExactlyGetPingAndPostMcp ==
  /\ \A c \in Conns : InFlight(c) => conn[c].verb = "POST" /\ conn[c].url = "/mcp"
  /\ \A ex \in Exchanges :
       ex.binding = "http" /\ ex.verb # "OPTIONS"
         => IF ex.url = "/ping" /\ ex.verb = "GET" THEN IsPong(ex)
            ELSE IF ex.url = "/mcp" /\ ex.verb = "POST" THEN IsDispatched(ex)
            ELSE IsNotFound(ex)

\* C7: an OPTIONS request to any path is answered 204 with the three
\* Access-Control-Allow-* headers and an empty body, and goes no further: its
\* body is not read, and so no credential is parsed and no tool dispatched
PreflightAnsweredAtOnce ==
  /\ \A c \in Conns : InFlight(c) => conn[c].verb # "OPTIONS"
  /\ \A ex \in Exchanges :
       ex.binding = "http" /\ ex.verb = "OPTIONS"
         => /\ ex.status = 204
            /\ ex.allowOrigin = "*"
            /\ ex.allowMethods = "GET, POST, OPTIONS"
            /\ ex.allowHeaders = "*"
            /\ ex.payload = Raw("")
            /\ ex.request = NotRead
            /\ ~Fetched(ex)

PreflightAnsweredAtOnceWitness ==
  \E ex \in Exchanges :
    /\ ex.binding = "http" /\ ex.verb = "OPTIONS" /\ ex.url = "/mcp"
    /\ "authorization" \in DOMAIN ex.headers
    /\ ex.status = 204

\* the token a sample header value carries after "Bearer", Undefined for a value
\* that is not of the form Bearer <token>
BearerToken(v) ==
  CASE v = Bearer_t1 -> Token_t1
    [] v = bearer_t2 -> Token_t2
    [] v = Arr(<<Bearer_t1, Key_k3>>) -> Token_t1
    [] OTHER -> Undefined

AuthorizationNames == {"authorization", "Authorization"}
CustomNames == HeaderNames \ AuthorizationNames

BearerHeaders(headers) ==
  {k \in AuthorizationNames \cap DOMAIN headers : BearerToken(headers[k]) # Undefined}

\* C8: given headers with both an authorization header of the form
\* Bearer <token> and a custom API-key header, parseApiKey returns the Bearer
\* token (that of the lower-case authorization header when both spellings carry
\* one)
BearerWinsOverCustomHeader ==
  pk.done /\ BearerHeaders(pk.headers) # {} /\ CustomNames \cap DOMAIN pk.headers # {}
    => pk.result = BearerToken(pk.headers[IF "authorization" \in BearerHeaders(pk.headers)
                                          THEN "authorization" ELSE "Authorization"])

BearerWinsOverCustomHeaderWitness ==
  /\ pk.done
  /\ pk.headers = ("authorization" :> bearer_t2) @@ ("x-api-key" :> Key_k2)
  /\ pk.result = Token_t2

\* the credential a request with these headers is entitled to: its own, or the
\* startup credential when it carries none
OwnCredential(headers) == EffectiveKey(CONFIG, parseApiKey(headers))

\* C9: with requests in flight on several connections, no step changes
\* CONFIG, and the outbound call of every request carries that request's own
\* credential, or the startup credential when the request has none
CredentialsStayWithTheirRequest ==
  [][/\ CONFIG' = CONFIG
     /\ \A c \in Conns :
          /\ conn'[c].pc = "fetch" /\ conn'[c].binding = "http"
               => conn'[c].fetch.authorization = OwnCredential(conn'[c].headers)
          /\ conn'[c].pc = "done" /\ conn'[c].ex.binding = "http" /\ Fetched(conn'[c].ex)
               => conn'[c].ex.fetch.authorization = OwnCredential(conn'[c].ex.headers)]_vars

CredentialsStayWithTheirRequestWitness ==
  /\ CONFIG.apiKey = Key_k0
  /\ \A c \in {1, 2} : conn[c].pc = "fetch" /\ conn[c].binding = "http"
  /\ conn[1].headers = "authorization" :> Bearer_t1
  /\ conn[1].fetch.authorization = Token_t1
  /\ conn[2].headers = <<>>
  /\ conn[2].fetch.authorization = Key_k0

\* the messages of the sample calls that violate their schema in several fields
MessageOfViolations ==
  [c \in {Obj([projectType |-> Str("cobol"), features |-> Str("all")]),
          Obj([projectType |-> Num(3), nativelinkUrl |-> Num(4),
               features |-> Arr(<<Str("bes"), Num(1), Null>>)]),
          Obj([topic |-> Str("install"), context |-> Num(1), maxTokens |-> Num(999)]),
          Obj([metrics |-> Obj([cacheHitRate |-> Num(2), totalTime |-> Str("long")]),
               targetOptimization |-> Str("fast")]),
          Obj([platform |-> Str("vax"), scale |-> Str("huge"), features |-> Bool(TRUE)]),
          Obj([debounceMs |-> Num(50), command |-> Str("run"), useIbazel |-> Str("yes"),
               watchPaths |-> Arr(<<Num(1)>>)])} |->
     CASE "nativelinkUrl" \in DOMAIN c.o ->
            "Invalid parameters: "
              \o "projectType: Expected 'rust' | 'cpp' | 'java' | 'python' | 'go' | 'mixed', received number, "
              \o "nativelinkUrl: Expected string, received number, "
              \o "features.1: Expected string, received number, "
              \o "features.2: Expected string, received null"
       [] "projectType" \in DOMAIN c.o ->
            "Invalid parameters: "
              \o "projectType: Invalid enum value. Expected 'rust' | 'cpp' | 'java' | 'python' | 'go' | 'mixed', received 'cobol', "
              \o "features: Expected array, received string"
       [] "topic" \in DOMAIN c.o ->
            "Invalid parameters: "
              \o "topic: Invalid enum value. Expected 'setup' | 'migration' | 'optimization' | 'troubleshooting' | 'api', received 'install', "
              \o "context: Expected string, received number, "
              \o "maxTokens: Number must be greater than or equal to 1000"
       [] "metrics" \in DOMAIN c.o ->
            "Invalid parameters: "
              \o "metrics.totalTime: Expected number, received string, "
              \o "metrics.cacheHitRate: Number must be less than or equal to 1, "
              \o "targetOptimization: Invalid enum value. Expected 'speed' | 'cost' | 'balanced', received 'fast'"
       [] "platform" \in DOMAIN c.o ->
            "Invalid parameters: "
              \o "platform: Invalid enum value. Expected 'kubernetes' | 'docker' | 'aws' | 'gcp' | 'azure', received 'vax', "
              \o "scale: Invalid enum value. Expected 'small' | 'medium' | 'large' | 'enterprise', received 'huge', "
              \o "features: Expected array, received boolean"
       [] OTHER ->
            "Invalid parameters: "
              \o "command: Invalid enum value. Expected 'build' | 'test' | 'both', received 'run', "
              \o "watchPaths.0: Expected string, received number, "
              \o "debounceMs: Number must be greater than or equal to 100, "
              \o "useIbazel: Expected boolean, received string"]

\* C10: when the arguments violate the schema in several fields, the failure
\* message is "Invalid parameters: " followed by one "path: reason" entry for
\* every violating field, nested paths joined with ".", the entries joined with
\* ", " and none left out
EveryViolationReported ==
  \A ex \in Exchanges :
    IsToolsCall(ex) /\ ToolOf(ex).t = "string" /\ ToolOf(ex).s \in ToolNames
      /\ ParamsProperty(ex.request, "arguments") \in DOMAIN MessageOfViolations
      => /\ IsFailure(Envelope(ex))
         /\ Envelope(ex).error.code = "InvalidParams"
         /\ Envelope(ex).error.message
              = MessageOfViolations[ParamsProperty(ex.request, "arguments")]

EveryViolationReportedWitness ==
  \E ex \in Exchanges :
    /\ IsToolsCall(ex) /\ ToolOf(ex) = Str("analyze-build-performance")
    /\ ParamsProperty(ex.request, "arguments") \in DOMAIN MessageOfViolations
    /\ IsFailure(Envelope(ex))

\* the fields a tool's schema requires, in schema order, and a valid value of
\* each
RequiredFields ==
  [t \in ToolNames |->
     CASE t = "get-bazel-config" -> <<"projectType">>
       [] t = "get-nativelink-docs" -> <<"topic">>
       [] t = "generate-deployment-config" -> <<"platform", "scale">>
       [] OTHER -> <<>>]

ValidRequired ==
  [projectType |-> Str("rust"), topic |-> Str("setup"), platform |-> Str("docker"),
   scale |-> Str("small")]

MissingFields(tool, args) ==
  SelectSeq(RequiredFields[tool], LAMBDA f : f \notin DOMAIN args.o)

\* the arguments with their missing required fields filled in
Completed(tool, args) ==
  Obj([f \in DOMAIN args.o \cup Range(RequiredFields[tool]) |->
         IF f \in DOMAIN args.o THEN args.o[f] ELSE ValidRequired[f]])

\* an arguments object that lacks a required field and is valid in what it has
LacksRequiredField(ex) ==
  /\ IsToolsCall(ex) /\ ToolOf(ex).t = "string" /\ ToolOf(ex).s \in ToolNames
  /\ HttpArgs(ex.request).t = "object"
  /\ ParamsProperty(ex.request, "arguments").t \in {"object", "undefined"}
  /\ ex.binding = "stdio" => ParamsProperty(ex.request, "arguments").t = "object"
  /\ MissingFields(ToolOf(ex).s, HttpArgs(ex.request)) # <<>>
  /\ Parse(SchemaOf(ToolOf(ex).s), Completed(ToolOf(ex).s, HttpArgs(ex.request))).ok

\* C11: a call whose arguments object lacks a required field of its tool is
\* answered by an InvalidParams failure whose message names each missing field
\* ("field: Required"), and no handler runs
MissingRequiredFieldIsNamed ==
  \A ex \in Exchanges :
    LacksRequiredField(ex)
      => LET missing == MissingFields(ToolOf(ex).s, HttpArgs(ex.request))
         IN  /\ IsFailure(Envelope(ex))
             /\ ~IsSuccess(Envelope(ex))
             /\ Envelope(ex).error.code = "InvalidParams"
             /\ Envelope(ex).error.message
                  = "Invalid parameters: "
                      \o Join([i \in 1..Len(missing) |-> missing[i] \o ": Required"], ", ")
             /\ ~Fetched(ex)

MissingRequiredFieldIsNamedWitness ==
  \E ex \in Exchanges :
    /\ LacksRequiredField(ex)
    /\ ToolOf(ex) = Str("generate-deployment-config")
    /\ MissingFields(ToolOf(ex).s, HttpArgs(ex.request)) = <<"platform", "scale">>
    /\ Envelope(ex).error.message = "Invalid parameters: platform: Required, scale: Required"

\* the bounded numeric field of a call, if its arguments carry one: its value
\* and its declared bounds (hi = -1: no upper bound)
NoBounded == [present |-> FALSE]
Bounded(v, lo, hi) == [present |-> v.t = "number", v |-> v, lo |-> lo, hi |-> hi]

BoundedField(tool, args) ==
  CASE tool = "get-nativelink-docs" -> Bounded(Get(args.o, "maxTokens"), 1000, 0 - 1)
    [] tool = "analyze-build-performance" ->
         IF Get(args.o, "metrics").t = "object"
         THEN Bounded(Get(Get(args.o, "metrics").o, "cacheHitRate"), 0, 1)
         ELSE NoBounded
    [] tool = "setup-watch-and-build" -> Bounded(Get(args.o, "debounceMs"), 100, 10000)
    [] OTHER -> NoBounded

InBounds(b) ==
  /\ b.v.num >= b.lo * b.v.den
  /\ b.hi >= 0 => b.v.num <= b.hi * b.v.den

\* the arguments with the bounded field set to a value well within its bounds
WithinBounds(tool, args) ==
  CASE tool = "get-nativelink-docs" -> Obj([args.o EXCEPT !.maxTokens = Num(2000)])
    [] tool = "analyze-build-performance" ->
         Obj([args.o EXCEPT !.metrics =
                Obj([args.o.metrics.o EXCEPT !.cacheHitRate = Frac(1, 2)])])
    [] OTHER -> Obj([args.o EXCEPT !.debounceMs = Num(500)])

\* a call that carries a number in a bounded field and is valid in the rest
CarriesBoundedNumber(ex) ==
  /\ IsToolsCall(ex) /\ ToolOf(ex).t = "string" /\ ToolOf(ex).s \in ToolNames
  /\ ParamsProperty(ex.request, "arguments").t = "object"
  /\ BoundedField(ToolOf(ex).s, HttpArgs(ex.request)).present
  /\ Parse(SchemaOf(ToolOf(ex).s), WithinBounds(ToolOf(ex).s, HttpArgs(ex.request))).ok

RejectedAsInvalid(ex) ==
  IsFailure(Envelope(ex)) /\ Envelope(ex).error.code = "InvalidParams"

\* C12: maxTokens is accepted exactly when it is at least 1000, cacheHitRate
\* exactly when it lies in [0, 1], debounceMs exactly when it lies in
\* [100, 10000], the bounds included; any other number is answered InvalidParams
\* and no handler runs
NumericBoundsAreInclusive ==
  \A ex \in Exchanges :
    CarriesBoundedNumber(ex)
      => LET b == BoundedField(ToolOf(ex).s, HttpArgs(ex.request))
         IN  IF InBounds(b) THEN ~RejectedAsInvalid(ex)
             ELSE RejectedAsInvalid(ex) /\ ~Fetched(ex)

NumericBoundsAreInclusiveWitness ==
  \E ex \in Exchanges :
    /\ CarriesBoundedNumber(ex)
    /\ ToolOf(ex) = Str("setup-watch-and-build")
    /\ Get(HttpArgs(ex.request).o, "debounceMs") = Num(10000)
    /\ IsSuccess(Envelope(ex))

\* the defaults the tools declare for their optional fields
DeclaredDefaults ==
  [t \in ToolNames |->
     CASE t = "get-bazel-config" ->
            [features |-> Arr(<<Str("remote_cache"), Str("remote_execution"), Str("bes")>>)]
       [] t = "get-nativelink-docs" -> [maxTokens |-> Num(5000)]
       [] t = "analyze-build-performance" -> [targetOptimization |-> Str("balanced")]
       [] t = "setup-watch-and-build" ->
            [command |-> Str("both"), targets |-> Str("//..."), debounceMs |-> Num(1000),
             useIbazel |-> Bool(FALSE)]
       [] OTHER -> <<>>]

\* the arguments with every omitted defaulted field passed explicitly
WithDefaults(tool, args) ==
  Obj([f \in DOMAIN args.o \cup DOMAIN DeclaredDefaults[tool] |->
         IF f \in DOMAIN args.o THEN args.o[f] ELSE DeclaredDefaults[tool][f]])

\* the request of an exchange with other arguments in place of its own
WithArguments(request, args) ==
  Obj([request.o EXCEPT !.params = Obj([request.o.params.o EXCEPT !.arguments = args])])

\* the envelope the binding of an exchange gives for another request under the
\* same configuration, headers, outbound outcome and clock reading
EnvelopeOfSameBinding(ex, request) ==
  IF ex.binding = "http"
  THEN HttpCallTool(request, RequestApi(CONFIG, parseApiKey(ex.headers)).api, ex.outcome,
                    ex.now)
  ELSE LET r == StdioResponse(Null, StdioCallTool(request, ServerApi, ex.outcome, ex.now))
       IN  IF "error" \in DOMAIN r THEN [error |-> r.error] ELSE r.result

\* a call of a catalogue tool with an arguments object
CallsToolWithObject(ex) ==
  /\ IsToolsCall(ex) /\ ToolOf(ex).t = "string" /\ ToolOf(ex).s \in ToolNames
  /\ ParamsProperty(ex.request, "arguments").t = "object"

OmitsDefaultedField(ex) ==
  /\ CallsToolWithObject(ex)
  /\ DOMAIN DeclaredDefaults[ToolOf(ex).s] \ DOMAIN HttpArgs(ex.request).o # {}

\* C13: a call that omits an optional field with a declared default gets the
\* envelope of the call that passes the default explicitly
OmittedFieldEqualsExplicitDefault ==
  \A ex \in Exchanges :
    OmitsDefaultedField(ex)
      => Envelope(ex)
           = EnvelopeOfSameBinding(
               ex, WithArguments(ex.request, WithDefaults(ToolOf(ex).s, HttpArgs(ex.request))))

OmittedFieldEqualsExplicitDefaultWitness ==
  \E ex \in Exchanges :
    /\ OmitsDefaultedField(ex)
    /\ ToolOf(ex) = Str("get-nativelink-docs")
    /\ Fetched(ex)
    /\ ex.outcome = Response(200, Obj([content |-> LongText]))
    /\ IsSuccess(Envelope(ex))

\* the fields the schemas declare, at the top level and inside metrics
DeclaredFields ==
  [t \in ToolNames |->
     CASE t = "get-bazel-config" -> {"projectType", "nativelinkUrl", "features"}
       [] t = "get-nativelink-docs" -> {"topic", "context", "maxTokens"}
       [] t = "analyze-build-performance" -> {"profileData", "metrics", "targetOptimization"}
       [] t = "generate-deployment-config" -> {"platform", "scale", "features"}
       [] OTHER -> {"command", "targets", "watchPaths", "excludePaths", "debounceMs",
                    "useIbazel"}]

MetricsFields ==
  {"totalTime", "cacheHitRate", "remoteExecutionTime", "localExecutionTime",
   "networkTransferSize"}

Restrict(o, keys) == [f \in DOMAIN o \cap keys |-> o[f]]

\* the arguments without the undeclared fields
WithoutExtraFields(tool, args) ==
  LET top == Restrict(args.o, DeclaredFields[tool])
  IN  Obj([f \in DOMAIN top |->
             IF f = "metrics" /\ tool = "analyze-build-performance" /\ top[f].t = "object"
             THEN Obj(Restrict(top[f].o, MetricsFields))
             ELSE top[f]])

HasExtraField(ex) ==
  /\ CallsToolWithObject(ex)
  /\ WithoutExtraFields(ToolOf(ex).s, HttpArgs(ex.request)) # HttpArgs(ex.request)

\* C14: adding fields the schema does not declare changes nothing: the call
\* passes validation and gets the envelope of the call without them
UndeclaredFieldsAreIgnored ==
  \A ex \in Exchanges :
    HasExtraField(ex)
      => LET plain == WithoutExtraFields(ToolOf(ex).s, HttpArgs(ex.request))
         IN  /\ Envelope(ex) = EnvelopeOfSameBinding(ex, WithArguments(ex.request, plain))
             /\ Parse(SchemaOf(ToolOf(ex).s), plain).ok => ~RejectedAsInvalid(ex)

UndeclaredFieldsAreIgnoredWitness ==
  \E ex \in Exchanges :
    /\ HasExtraField(ex)
    /\ ToolOf(ex) = Str("analyze-build-performance")
    /\ "bogus" \in DOMAIN HttpArgs(ex.request).o.metrics.o
    /\ IsSuccess(Envelope(ex))

\* C15: the body the HTTP binding answers a tools/call with has exactly one
\* of the keys content and error, and that one is populated: a content of one
\* text item, or an error with a code and a message
ExactlyOneOfContentAndError ==
  \A ex \in Exchanges :
    ex.binding = "http" /\ IsToolsCall(ex)
      => LET body == ex.payload.json
         IN  /\ DOMAIN body \in {{"content"}, {"error"}}
             /\ IsSuccess(body)
                  => /\ Len(body.content) = 1
                     /\ body.content[1].type = "text"
                     /\ body.content[1].text.t # "undefined"
             /\ IsFailure(body)
                  => /\ DOMAIN body.error = {"code", "message"}
                     /\ body.error.code \in {"InvalidParams", "InternalError"}

ExactlyOneOfContentAndErrorWitness ==
  \E ex \in Exchanges :
    /\ ex.binding = "http" /\ IsToolsCall(ex)
    /\ ParamsProperty(ex.request, "name").t = "undefined"
    /\ DOMAIN ex.payload.json = {"error"}

IsToolsList(ex) == Property(ex.request, "method") = Str("tools/list")
ToolsListed(ex) ==
  IF ex.binding = "http" THEN ex.payload.json.tools ELSE ex.response.result.tools

\* C17: in both bindings, after any earlier requests, tools/list answers the
\* same five descriptors in the same order: each binding's answer equals the
\* list of the other binding, descriptor by descriptor in name, description
\* and input schema
SameFiveDescriptors ==
  \A ex \in Exchanges :
    IsToolsList(ex)
      => /\ ToolsListed(ex) = (IF ex.binding = "http" THEN StdioTools ELSE HttpTools)
         /\ [i \in 1..Len(ToolsListed(ex)) |-> ToolsListed(ex)[i].name]
              = <<"get-bazel-config", "get-nativelink-docs", "analyze-build-performance",
                  "generate-deployment-config", "setup-watch-and-build">>
         /\ \A i \in 1..Len(ToolsListed(ex)) :
              DOMAIN ToolsListed(ex)[i] = {"name", "description", "inputSchema"}

SameFiveDescriptorsWitness ==
  /\ conn[1].pc = "done" /\ conn[1].ex.binding = "http"
  /\ IsToolsList(conn[1].ex)
  /\ conn[1].ex.status = 200
  /\ conn[1].ex.headers # <<>>
  /\ Len(ToolsListed(conn[1].ex)) = 5

\* the correlation id a response carries, if any
ResponseId(ex) ==
  IF ex.binding = "stdio" THEN ex.response.id
  ELSE IF "id" \in DOMAIN ex.payload.json
  THEN ex.payload.json.id
  ELSE Undefined

\* C18: in both bindings, for tools/list and tools/call, on success and on
\* failure, the response carries the id of its request unchanged
ResponseEchoesRequestId ==
  \A ex \in Exchanges :
    (IsToolsList(ex) \/ IsToolsCall(ex)) /\ Property(ex.request, "id").t = "number"
      => ResponseId(ex) = Property(ex.request, "id")

\* C19: every dispatch of a network-backed tool is answered in the end, even
\* when its outbound request never completes
DispatchAlwaysAnswered ==
  \A c \in {1} : conn[c].pc = "fetch" ~> conn[c].pc = "done"

\* str.includes(phrase) on a literal, and on a text through its literal chunks
\* (a chunk kept by name stands for lines in which the phrases asked for below
\* do not occur: the setup body is part_000 lines 45 to 79)
StrIncludes(str, phrase) ==
  \E i \in 1..(Len(str) - Len(phrase) + 1) : SubSeq(str, i, i + Len(phrase) - 1) = phrase
TextIncludes(text, phrase) ==
  \E i \in 1..Len(text.x) :
    text.x[i].n = Len(text.x[i].s) /\ StrIncludes(text.x[i].s, phrase)

\* a get-nativelink-docs call for the setup topic whose outbound request failed
SetupDocsAfterFailure(ex) ==
  /\ IsToolsCall(ex) /\ ToolOf(ex) = Str("get-nativelink-docs") /\ Fetched(ex)
  /\ ex.fetch.topic = "setup"
  /\ OutboundFailed(ex.outcome)
  /\ IsSuccess(Envelope(ex))

\* C20: when the outbound documentation request fails, the text returned for
\* the setup topic is the offline setup documentation and contains the heading
\* text "Nativelink Setup Guide"
OfflineSetupHasSetupGuideHeading ==
  \A ex \in Exchanges :
    SetupDocsAfterFailure(ex)
      => /\ TextOf(Envelope(ex)) = OfflineDocs.setup
         /\ TextIncludes(TextOf(Envelope(ex)), "Nativelink Setup Guide")

\* a get-bazel-config call whose arguments pass validation
ValidConfigCall(ex) ==
  /\ CallsToolWithObject(ex) /\ ToolOf(ex) = Str("get-bazel-config")
  /\ Parse(GetBazelConfigSchema, HttpArgs(ex.request)).ok

\* the features the text is generated for: those given, else the default three
EffectiveFeatures(args) ==
  IF "features" \in DOMAIN args.o THEN args.o.features
  ELSE Arr(<<Str("remote_cache"), Str("remote_execution"), Str("bes")>>)

\* the setting lines config.ts lists for each project type
SpecificLines ==
  [rust |-> {"build --@rules_rust//rust/settings:pipelined_compilation=True",
             "build --@rules_rust//rust/settings:rustfmt_toml=//:rustfmt.toml"},
   cpp |-> {"build --cxxopt=-std=c++17", "build --host_cxxopt=-std=c++17",
            "build --copt=-fPIC"},
   java |-> {"build --java_language_version=11",
             "build --java_runtime_version=remotejdk_11",
             "build --tool_java_language_version=11",
             "build --tool_java_runtime_version=remotejdk_11"},
   python |-> {"build --action_env=PYTHONDONTWRITEBYTECODE=1",
               "test --test_env=PYTHONDONTWRITEBYTECODE=1"},
   go |-> {"build --@io_bazel_rules_go//go/config:race=false",
           "test --@io_bazel_rules_go//go/config:race=true"},
   mixed |-> {"# Configure based on your primary language",
              "# See language-specific configurations above"}]

\* C21: the text of get-bazel-config contains every setting line of its
\* projectType and no setting line of another projectType, and contains the
\* build --remote_cache= directive exactly when the effective features include
\* remote_cache
ConfigFollowsProjectAndFeatures ==
  \A ex \in Exchanges :
    ValidConfigCall(ex)
      => LET args == HttpArgs(ex.request)
             text == TextOf(Envelope(ex))
         IN  /\ IsSuccess(Envelope(ex))
             /\ \A t \in DOMAIN SpecificLines : \A line \in SpecificLines[t] :
                  TextIncludes(text, line) <=> t = args.o.projectType.s
             /\ TextIncludes(text, "build --remote_cache=")
                  <=> Includes(EffectiveFeatures(args), "remote_cache")

ConfigFollowsProjectAndFeaturesWitness ==
  \E ex \in Exchanges :
    /\ ValidConfigCall(ex)
    /\ HttpArgs(ex.request).o.projectType = Str("go")
    /\ HttpArgs(ex.request).o.features = Arr(<<>>)
    /\ ~TextIncludes(TextOf(Envelope(ex)), "build --remote_cache=")
    /\ TextIncludes(TextOf(Envelope(ex)), "race=false")

\* an analyze-build-performance call whose arguments pass validation
ValidPerformanceCall(ex) ==
  /\ CallsToolWithObject(ex) /\ ToolOf(ex) = Str("analyze-build-performance")
  /\ Parse(AnalyzeBuildPerformanceSchema, HttpArgs(ex.request)).ok

\* the heading of the recommendations section each target selects
SectionOf ==
  [speed |-> "### Speed Optimizations", cost |-> "### Cost Optimizations",
   balanced |-> "### Balanced Optimizations"]

TargetOf(args) ==
  IF "targetOptimization" \in DOMAIN args.o THEN args.o.targetOptimization.s
  ELSE "balanced"

\* metrics.cacheHitRate is given and below 0.5
LowCacheHitRate(args) ==
  /\ "metrics" \in DOMAIN args.o
  /\ "cacheHitRate" \in DOMAIN args.o.metrics.o
  /\ 2 * args.o.metrics.o.cacheHitRate.num < args.o.metrics.o.cacheHitRate.den

\* C22: the text of analyze-build-performance holds the recommendations
\* section of its targetOptimization (balanced when absent) and of no other
\* target; when no AI key is configured, so that no outbound request is made,
\* a cacheHitRate below 0.5 puts the low cache hit rate warning in the text
OneSectionByTarget ==
  \A ex \in Exchanges :
    ValidPerformanceCall(ex)
      => LET args == HttpArgs(ex.request)
             text == TextOf(Envelope(ex))
         IN  /\ IsSuccess(Envelope(ex))
             /\ \A t \in DOMAIN SectionOf :
                  TextIncludes(text, SectionOf[t]) <=> t = TargetOf(args)
             /\ ~Fetched(ex) /\ LowCacheHitRate(args)
                  => TextIncludes(text, "Low cache hit rate")

OneSectionByTargetWitness ==
  \E ex \in Exchanges :
    /\ ValidPerformanceCall(ex)
    /\ ~Fetched(ex)
    /\ TargetOf(HttpArgs(ex.request)) = "speed"
    /\ LowCacheHitRate(HttpArgs(ex.request))
    /\ TextIncludes(TextOf(Envelope(ex)), "Low cache hit rate")

\* a generate-deployment-config call whose arguments pass validation
ValidDeploymentCall(ex) ==
  /\ CallsToolWithObject(ex) /\ ToolOf(ex) = Str("generate-deployment-config")
  /\ Parse(GenerateDeploymentConfigSchema, HttpArgs(ex.request)).ok

WantsAutoscaling(args) ==
  "features" \in DOMAIN args.o /\ Includes(args.o.features, "autoscaling")

\* C23: for platform docker the text holds the compose version marker and the
\* nativelink service block whatever the scale and the features; for platform
\* kubernetes it holds kind: Deployment always and HorizontalPodAutoscaler
\* exactly when the features include autoscaling
GeneratorChosenByPlatform ==
  \A ex \in Exchanges :
    ValidDeploymentCall(ex)
      => LET args == HttpArgs(ex.request)
             text == TextOf(Envelope(ex))
         IN  /\ IsSuccess(Envelope(ex))
             /\ args.o.platform = Str("docker")
                  => TextIncludes(text, "version:") /\ TextIncludes(text, "nativelink:")
             /\ args.o.platform = Str("kubernetes")
                  => /\ TextIncludes(text, "kind: Deployment")
                     /\ TextIncludes(text, "HorizontalPodAutoscaler")
                          <=> WantsAutoscaling(args)

GeneratorChosenByPlatformWitness ==
  \E ex \in Exchanges :
    /\ ValidDeploymentCall(ex)
    /\ HttpArgs(ex.request).o.platform = Str("kubernetes")
    /\ ~WantsAutoscaling(HttpArgs(ex.request))
    /\ TextIncludes(TextOf(Envelope(ex)), "kind: Deployment")
    /\ ~TextIncludes(TextOf(Envelope(ex)), "HorizontalPodAutoscaler")

\* a slot whose last line was no JSON
MalformedLineReported(slot) == slot.pc = "idle" /\ "onerror" \in DOMAIN slot

LocalTools == {"get-bazel-config", "generate-deployment-config", "setup-watch-and-build"}

\* the arguments the binding of the exchange hands to the schema
DispatchedArgs(ex) ==
  IF ex.binding = "http" THEN HttpArgs(ex.request)
  ELSE ParamsProperty(ex.request, "arguments")

CallsLocalTool(ex) ==
  IsToolsCall(ex) /\ ToolOf(ex).t = "string" /\ ToolOf(ex).s \in LocalTools

\* C25: a call of get-bazel-config, generate-deployment-config or
\* setup-watch-and-build issues no outbound request in either binding, and
\* when its arguments pass the schema it is answered by a success envelope
LocalToolsNeverFetchAndSucceed ==
  \A ex \in Exchanges :
    CallsLocalTool(ex)
      => /\ ~Fetched(ex)
         /\ Parse(SchemaOf(ToolOf(ex).s), DispatchedArgs(ex)).ok => IsSuccess(Envelope(ex))

LocalToolsNeverFetchAndSucceedWitness ==
  \E ex \in Exchanges :
    /\ CallsLocalTool(ex) /\ ToolOf(ex).s = "setup-watch-and-build"
    /\ ex.binding = "stdio"
    /\ Parse(SetupWatchAndBuildSchema, DispatchedArgs(ex)).ok
    /\ "watchPaths" \notin DOMAIN DispatchedArgs(ex).o
    /\ IsSuccess(Envelope(ex)) /\ ~Fetched(ex)

\* the tools whose handlers await an outbound request
NetworkTools == {"get-nativelink-docs", "analyze-build-performance"}

CallsNetworkTool(ex) ==
  IsToolsCall(ex) /\ ToolOf(ex).t = "string" /\ ToolOf(ex).s \in NetworkTools

FailsValidation(ex) == ~Parse(SchemaOf(ToolOf(ex).s), DispatchedArgs(ex)).ok

\* C26: validation precedes the handler: a get-nativelink-docs or
\* analyze-build-performance call whose arguments fail the schema never waits
\* on an outbound request, and it is answered InvalidParams with no outbound
\* request issued
ValidationPrecedesHandler ==
  /\ \A c \in Conns :
       conn[c].pc = "fetch"
         => CallsNetworkTool(conn[c]) /\ ~FailsValidation(conn[c])
  /\ \A ex \in Exchanges :
       CallsNetworkTool(ex) /\ FailsValidation(ex)
         => ~Fetched(ex) /\ RejectedAsInvalid(ex)

ValidationPrecedesHandlerWitness ==
  \E ex \in Exchanges :
    /\ CallsNetworkTool(ex) /\ ToolOf(ex).s = "analyze-build-performance"
    /\ DispatchedArgs(ex).t = "object"
    /\ FailsValidation(ex)
    /\ ~Fetched(ex) /\ RejectedAsInvalid(ex)

\* a get-nativelink-docs call answered after its outbound request settled with
\* a text for the documentation
DocsTextTruncated(ex) ==
  /\ IsToolsCall(ex) /\ ToolOf(ex) = Str("get-nativelink-docs") /\ Fetched(ex)
  /\ fetchDocumentation(ServerApi, ex.fetch.topic, ex.fetch.context, ex.outcome).t = "string"

\* the text handed to truncateResponse, and its limit in characters
DocsOf(ex) == fetchDocumentation(ServerApi, ex.fetch.topic, ex.fetch.context, ex.outcome)
MaxCharsOf(ex) == 4 * OrElse(Property(DispatchedArgs(ex), "maxTokens"), Num(5000)).num

\* C27: truncateResponse returns a text of at most 4 * maxTokens characters
\* unchanged, and otherwise its first 4 * maxTokens characters followed by the
\* truncation marker; truncating the result again with the same maxTokens
\* changes nothing
TruncateOnceIsTruncateTwice ==
  \A ex \in Exchanges :
    DocsTextTruncated(ex)
      => LET out == TextOf(Envelope(ex))
             maxChars == MaxCharsOf(ex)
         IN  /\ Length(DocsOf(ex).x) <= maxChars => out = DocsOf(ex)
             /\ Length(DocsOf(ex).x) > maxChars
                  => /\ Length(out.x) = maxChars + Len("\n\n[Response truncated for length]")
                     /\ Substring(out.x, maxChars) = Substring(DocsOf(ex).x, maxChars)
                     /\ out.x[Len(out.x)].s = "\n\n[Response truncated for length]"
             /\ truncateResponse(out, maxChars \div 4) = Return(out)

TruncateOnceIsTruncateTwiceWitness ==
  \E ex \in Exchanges :
    /\ DocsTextTruncated(ex)
    /\ Length(DocsOf(ex).x) > MaxCharsOf(ex)
    /\ Length(TextOf(Envelope(ex)).x) > MaxCharsOf(ex)
    /\ truncateResponse(TextOf(Envelope(ex)), MaxCharsOf(ex) \div 4) = Return(TextOf(Envelope(ex)))

\* a tools/call of a tool without required fields that carries no arguments
OmitsArguments(ex) ==
  /\ IsToolsCall(ex)
  /\ ToolOf(ex) \in {Str("analyze-build-performance"), Str("setup-watch-and-build")}
  /\ ParamsProperty(ex.request, "arguments").t = "undefined"

\* C28: a tools/call of analyze-build-performance or setup-watch-and-build
\* that omits arguments is answered, in the binding that took it, by a success
\* envelope carrying the text the tool gives for the empty arguments object
OmittedArgumentsSucceed ==
  \A ex \in Exchanges :
    OmitsArguments(ex)
      => /\ IsSuccess(Envelope(ex))
         /\ Envelope(ex)
              = EnvelopeOfSameBinding(ex, Request("tools/call",
                                                  Call(ToolOf(ex).s, Obj(<<>>)),
                                                  Property(ex.request, "id").num))

\* the credential the header named k yields, Undefined when it yields none: the
\* token of a Bearer value for an authorization header, the (first) value of
\* a custom header, nothing for an absent header or the empty string
CredentialAt(headers, k) ==
  IF k \notin DOMAIN headers \/ headers[k] = Chars(<<>>) THEN Undefined
  ELSE IF k \in AuthorizationNames THEN BearerToken(headers[k])
  ELSE IF headers[k].t = "array" THEN headers[k].a[1]
  ELSE headers[k]

Yielding(headers) ==
  {i \in 1..Len(headerKeys) : CredentialAt(headers, headerKeys[i]) # Undefined}

\* C29: parseApiKey returns the credential of the first header, in the order
\* of headerKeys, that yields one; an authorization header whose value is not
\* of the form Bearer <token> is passed over, so that a custom header after it
\* is returned; when no header yields a credential the result is undefined and
\* the effective key is the startup credential
FirstYieldingHeaderWins ==
  pk.done
    => LET yielding == Yielding(pk.headers)
       IN  IF yielding = {}
           THEN pk.result = Undefined /\ EffectiveKey(CONFIG, pk.result) = CONFIG.apiKey
           ELSE pk.result
                  = CredentialAt(pk.headers,
                                 headerKeys[CHOOSE i \in yielding :
                                              \A j \in yielding : i <= j])

FirstYieldingHeaderWinsWitness ==
  /\ pk.done
  /\ pk.headers = ("authorization" :> Basic_x) @@ ("nativelink-api-key" :> Key_k2)
  /\ pk.result = Key_k2

\* the answered POST /mcp requests, whose body was read
McpExchanges == {ex \in Exchanges : ex.binding = "http" /\ ex.request # NotRead}

InternalServerError(ex) ==
  ex.status = 500 /\ ex.payload = Json([error |-> "Internal server error"])

OtherMethod(ex) ==
  Property(ex.request, "method") \notin {Str("tools/list"), Str("tools/call")}

\* a slot of the HTTP binding waits on an outbound request only for a
\* tools/call carried by a JSON object
DispatchOnlyForToolsCall ==
  \A c \in Conns :
    conn[c].pc = "fetch" /\ conn[c].binding = "http"
      => conn[c].request.t = "object" /\ IsToolsCall(conn[c])

\* C30 as claimed: a POST /mcp whose body is not valid JSON, or is JSON that
\* is not an object, is answered 500 {"error":"Internal server error"} with no
\* tool dispatched, and one whose method is neither tools/list nor tools/call
\* is answered 404
NonObjectBodyAnswered500 ==
  /\ DispatchOnlyForToolsCall
  /\ \A ex \in McpExchanges :
       /\ ex.request.t # "object" => InternalServerError(ex) /\ ~Fetched(ex)
       /\ ex.request.t = "object" /\ OtherMethod(ex) => ex.status = 404

\* C30, amended: a POST /mcp whose body is not valid JSON, or is the JSON value
\* null, is answered 500 {"error":"Internal server error"}; every other body
\* whose method is neither tools/list nor tools/call, a JSON value that is no
\* object included, is answered 404 {"error":"Method not found"}; in neither
\* case is a tool dispatched
UnparsedOrNullBodyAnswered500 ==
  /\ DispatchOnlyForToolsCall
  /\ \A ex \in McpExchanges :
       /\ ex.request.t \in {"malformed", "null"} => InternalServerError(ex) /\ ~Fetched(ex)
       /\ ex.request.t \notin {"malformed", "null"} /\ OtherMethod(ex)
            => /\ ex.status = 404
               /\ ex.payload = Json([error |-> "Method not found"])
               /\ ~Fetched(ex)

UnparsedOrNullBodyAnswered500Witness ==
  \E ex \in McpExchanges :
    /\ ex.verb = "POST" /\ ex.url = "/mcp"
    /\ ex.request = Num(5)
    /\ ex.status = 404
    /\ ex.payload = Json([error |-> "Method not found"])

====
